---- MODULE Spec2Model ----
(***************************************************************************)
(* State-machine model of the ESP32 display panel firmware: the clock      *)
(* service (TimeManager), the brightness scheduler with touch wake, the    *)
(* touch read callback, and the outbound webhook queue with its worker     *)
(* (DeviceController).                                                     *)
(*                                                                         *)
(* millis() is a 32-bit counter.  A 32-bit value is written <<hi, lo>>     *)
(* with two 16-bit halves, so that sums and differences wrap modulo 2^32   *)
(* exactly as unsigned long does on the target.                            *)
(***************************************************************************)
EXTENDS Integers, Sequences, FiniteSets, TLC

\* ------------------------------------------------------------------------
\* 32-bit unsigned arithmetic (unsigned long on the ESP32)
\* ------------------------------------------------------------------------

Half == 65536

\* the 32-bit value of a natural number below 2^31
U32(n) == <<(n \div Half) % Half, n % Half>>

Add32(a, b) ==
    LET lo == a[2] + b[2]
    IN  <<(a[1] + b[1] + (lo \div Half)) % Half, lo % Half>>

Sub32(a, b) ==
    LET lo == a[2] - b[2]
        borrow == IF lo < 0 THEN 1 ELSE 0
    IN  <<(a[1] - b[1] - borrow + Half) % Half, (lo + Half) % Half>>

Lt32(a, b) == a[1] < b[1] \/ (a[1] = b[1] /\ a[2] < b[2])

Ge32(a, b) == ~Lt32(a, b)

\* ------------------------------------------------------------------------
\* Bounds of the model
\* ------------------------------------------------------------------------

\* longest period list explored
MaxPeriods == 3

\* buttons of the configuration
NumButtons == 2

\* ------------------------------------------------------------------------
\* Period resolution (BrightnessScheduler::findActivePeriod)
\* ------------------------------------------------------------------------

\* uint16_t toMinutesSinceMidnight(uint8_t hour, uint8_t minute)
toMinutesSinceMidnight(hour, minute) == (hour * 60 + minute) % Half

\* The loop of findActivePeriod from index i (0-based, as in the code) with
\* the candidate found so far; it stops at the first period that starts
\* after the current time.
RECURSIVE ScanPeriods(_, _, _, _)
ScanPeriods(periods, currentMinutes, i, activePeriod) ==
    IF i >= Len(periods) THEN activePeriod
    ELSE LET periodStart == toMinutesSinceMidnight(periods[i + 1].startHour,
                                                   periods[i + 1].startMinute)
         IN  IF periodStart <= currentMinutes
             THEN ScanPeriods(periods, currentMinutes, i + 1, i)
             ELSE activePeriod

\* a scheduler that starts the scan from the first period instead of the last
findActivePeriodFromFirst(periods, hour, minute) ==
    IF Len(periods) = 0 THEN -1
    ELSE ScanPeriods(periods, toMinutesSinceMidnight(hour, minute), 0, 0)

findActivePeriod(periods, hour, minute) ==
    IF Len(periods) = 0 THEN -1
    ELSE ScanPeriods(periods, toMinutesSinceMidnight(hour, minute), 0,
                     Len(periods) - 1)

\* The same computation as written a second time in the /api/info handler.
RECURSIVE InfoScan(_, _, _, _)
InfoScan(periods, currentMinutes, i, activePeriod) ==
    IF i >= Len(periods) THEN activePeriod
    ELSE LET periodStart == (periods[i + 1].startHour * 60
                             + periods[i + 1].startMinute) % Half
         IN  IF periodStart <= currentMinutes
             THEN InfoScan(periods, currentMinutes, i + 1, i)
             ELSE activePeriod

infoActivePeriod(periods, hour, minute) ==
    InfoScan(periods, (hour * 60 + minute) % Half, 0,
             IF Len(periods) > 0 THEN Len(periods) - 1 ELSE -1)

\* ------------------------------------------------------------------------
\* Program constants
\* ------------------------------------------------------------------------

SYNC_INTERVAL_MS == 3600000
SYNC_RETRY_MS == 60000
WAKE_GRACE_PERIOD_MS == 500
DIM_THRESHOLD == 5
FALLBACK_BRIGHTNESS == 50
INVALID_BRIGHTNESS == 255
DEFAULT_SCHEDULED_BRIGHTNESS == 80
PLAUSIBLE_YEAR == 2024
SETUP_DELAY_MS == 100
HTTP_QUEUE_SIZE == 3
WEBHOOK_MIN_INTERVAL == 100
WORKER_DELAY_MS == 50
SERVER_CHECK_INTERVAL == 30000
FADE_START == 100
FADE_STEP == 5
DEFAULT_BRIGHTNESS == 80

\* ------------------------------------------------------------------------
\* Input domains
\* ------------------------------------------------------------------------

\* number of steps by which the tick counter advances in one run
MaxAdvances == 4

\* years the real-time clock can show: never set, set to a stale value, current
Years == {1970, 2020, 2025}

\* years for which getLocalTime() reports failure (clock never set)
UnsetYears == {1970}

Time(h, m) == [h |-> h, m |-> m]

\* wall-clock readings used by the scheduler runs
TimesOfDay == {Time(5, 0), Time(7, 0), Time(23, 30)}

Period(h, m, b) == [startHour |-> h, startMinute |-> m, brightness |-> b]

Timezones == {"MST7MDT,M3.2.0,M11.1.0", "UTC0"}

\* BrightnessScheduleConfig documents (display.schedule)
ScheduleConfig(en, ps, tb, to, tz) ==
    [enabled |-> en, periods |-> ps, touchBrightness |-> tb,
     displayTimeout |-> to, timezone |-> tz]

DayNightPeriods == <<Period(6, 0, 80), Period(22, 0, 0)>>
DimPeriods == <<Period(6, 0, 50), Period(22, 0, 3)>>

Schedules ==
    { ScheduleConfig(FALSE, DayNightPeriods, 80, 1, "") }
    \cup { ScheduleConfig(TRUE, ps, tb, 1, tz) :
             ps \in {<< >>, DayNightPeriods, DimPeriods},
             tb \in {5, 80},
             tz \in {""} }
    \cup { ScheduleConfig(TRUE, DayNightPeriods, 80, 1, "UTC0") }

\* values of display.brightness (manual brightness) and of brightness requests
ManualBrightness == {0, 80}

\* DayNightConfig documents (display.dayNightMode)
DayNightConfig(en, day, night, dayStart, nightStart) ==
    [enabled |-> en, dayTheme |-> day, nightTheme |-> night,
     dayStartHour |-> dayStart, nightStartHour |-> nightStart]

\* what parseConfigJson() and createDefaultConfig() use for a document without
\* display.theme and display.dayNightMode
DefaultTheme == "dark_clean"
DefaultDayNight == DayNightConfig(FALSE, "light_mode", "dark_clean", 7, 20)

\* the day/night settings the theme scheduler runs over: the defaults switched
\* on (their night theme is a name the theme engine does not know), two known
\* themes, one theme for both halves of the day, and day/night mode off
DayNightConfigs ==
    { DefaultDayNight,
      DayNightConfig(TRUE, "light_mode", "dark_clean", 7, 20),
      DayNightConfig(TRUE, "light_mode", "dark_mode", 7, 20),
      DayNightConfig(TRUE, "lcars", "lcars", 7, 20) }

\* configuration documents: display.schedule, display.brightness,
\* display.theme and display.dayNightMode of one that parses, or a text that
\* does not parse
\* createDefaultConfig(): light buttons 1..NumButtons, all off
DefaultButtons == [id \in 1..NumButtons |-> [type |-> "LIGHT", state |-> FALSE]]

\* config.buttons after clear()
NoButtons == << >>

ThemedDoc(sch, b, th, dn) ==
    [valid |-> TRUE, schedule |-> sch, brightness |-> b, theme |-> th, dayNight |-> dn,
     buttons |-> DefaultButtons]

\* a document that parses and holds nothing but display.schedule: no buttons
\* array, no display.brightness, display.theme or display.dayNightMode
PartialDoc(sch) == [valid |-> TRUE, schedule |-> sch]

\* whether a document is unparsable, lacks fields, or is complete
DocKind(doc) ==
    IF ~doc.valid THEN "invalid"
    ELSE IF {"brightness", "theme", "dayNight", "buttons"} \subseteq DOMAIN doc THEN "full"
    ELSE "partial"

ConfigDoc(sch, b) == ThemedDoc(sch, b, DefaultTheme, DefaultDayNight)

InvalidDoc == [valid |-> FALSE]

\* setDefaults(): config.server.reportingUrl; also what parseConfigJson()
\* builds from the default host and port
Url(scheme, rest) == [scheme |-> scheme, rest |-> rest]
DefaultUrl == Url("http://", "10.0.1.250:3000")
\* the empty string
NoUrl == Url("", "")

ConfigDocs == { ConfigDoc(sch, b) : sch \in Schedules, b \in ManualBrightness }

\* ------------------------------------------------------------------------
\* State
\* ------------------------------------------------------------------------

VARIABLES
    \* environment
    started,            \* setup() has run, loop() is running
    now,                \* millis(), 32 bits
    advances,           \* steps of the tick counter taken so far
    wifi,               \* WiFi.status() == WL_CONNECTED
    rtcYear,            \* year shown by the system clock
    wall,               \* local time of day shown by the system clock
    \* TimeManager
    synced,
    lastSyncAttempt,
    lastSuccessfulSync,
    currentTimezone,
    syncOutcome,        \* what the last attemptSync() did
    \* ConfigManager (config.display)
    schedule,
    displayBrightness,
    displayTheme,
    dayNight,
    \* ThemeEngine
    currentTheme,       \* name of the theme definition in use
    \* ThemeScheduler
    currentAppliedTheme,
    wasNightTime,
    initialized,
    crossed,            \* the last update() found the day/night status changed
    posted,             \* kind of the last document posted to /api/config
    \* UIManager
    currentBrightness,
    needsRebuild,
    \* BrightnessScheduler
    state,
    currentScheduledBrightness,
    lastAppliedBrightness,
    wakeStartTime,
    wakeGraceEndTime,
    currentPeriodIndex,
    \* calls observed at the scheduler's interface
    lastCall,           \* the scheduler entry point called last
    lastRet,            \* its return value
    lastWrote,          \* whether it wrote a brightness to the UIManager
    updRun,             \* update() calls in a row with nothing in between
    \* touch input (my_touchpad_read)
    isTouched,          \* touchController.isTouched
    indevState,         \* data->state of the last read
    wakeContact,        \* the finger that woke the display is still down
    woke,               \* a touch has woken the display
    wokeAt,             \* millis() of the last wake
    \* ConfigManager (config.buttons)
    buttons,
    \* DeviceController
    httpQueue,
    queueOk,            \* httpQueue != nullptr
    lastWebhookTime,
    workerPc,           \* where httpWorkerTask is
    workerRequest,      \* the request it holds
    workerDelayStart,   \* when its vTaskDelay began
    lastTrigger,        \* the last webhook trigger and what became of it
    quiet,              \* ms since the last webhook trigger, up to the minimum interval
    \* harness of the pure functions
    query,
    queryResult,
    \* POST /api/config in the web server's task
    handlerPc,          \* where parseConfigJson() and the handler are
    handlerDoc,         \* the document being applied
    handlerOld,         \* the configuration in memory when it began
    \* DeviceController: the connectivity probe
    serverConnected,
    lastServerCheck,
    \* writes to config.buttons
    lastWrite,          \* button id -> the state last written to it
    sceneLoop,          \* where setAllButtons() is in its loop
    \* TimeManager::update()
    sinceSync,          \* ms since its last sync attempt, up to the resync interval
    \* UIManager::update(): the rebuild with its brightness fade
    rebuildFadeInProgress,
    rebuildFadeStep,    \* 0 fade out, 1 rebuild, 2 fade in, 3 done
    rebuildTargetBrightness,
    fadeValue,
    \* config.server and the server-change confirmation (serverChangeState)
    reportingUrl,       \* config.server.reportingUrl
    serverChangePending,
    newReportingUrl,
    overlay             \* the dialog: "null", "shown", or "deleted" with the screen's children

envVars == <<started, now, advances, wifi, rtcYear, wall>>
tmVars == <<synced, lastSyncAttempt, lastSuccessfulSync, currentTimezone, syncOutcome>>
cfgVars == <<schedule, displayBrightness>>
uiVars == <<currentBrightness, needsRebuild>>
bsVars == <<state, currentScheduledBrightness, lastAppliedBrightness,
            wakeStartTime, wakeGraceEndTime, currentPeriodIndex>>
callVars == <<lastCall, lastRet, lastWrote, updRun>>
touchVars == <<isTouched, indevState, wakeContact, woke, wokeAt>>
dcVars == <<buttons, httpQueue, queueOk, lastWebhookTime, workerPc, workerRequest,
            workerDelayStart, lastTrigger, quiet>>
pfVars == <<query, queryResult>>
tcVars == <<displayTheme, dayNight>>
tsVars == <<currentTheme, currentAppliedTheme, wasNightTime, initialized>>
thVars == <<tcVars, tsVars, crossed, posted>>

hVars == <<handlerPc, handlerDoc, handlerOld>>
probeVars == <<serverConnected, lastServerCheck>>
wrVars == <<lastWrite, sceneLoop>>
fadeVars == <<rebuildFadeInProgress, rebuildFadeStep, rebuildTargetBrightness, fadeValue>>
dlgVars == <<serverChangePending, newReportingUrl, overlay>>
pnVars == <<fadeVars, reportingUrl, dlgVars>>
cxVars == <<hVars, probeVars, pnVars, wrVars, sinceSync>>

vars == <<envVars, tmVars, cfgVars, uiVars, bsVars, callVars, touchVars, dcVars, pfVars,
          thVars, cxVars>>

\* ------------------------------------------------------------------------
\* Construction
\* ------------------------------------------------------------------------

NoQuery == [periods |-> << >>, hour |-> 0, minute |-> 0]

NoResult == [done |-> FALSE, scheduler |-> -1, info |-> -1]

\* what a queued request says: the endpoint kind, the id in its URL and the
\* state in its payload
Request(kind, id, st) == [kind |-> kind, id |-> id, state |-> st]

NoRequest == Request("none", 0, FALSE)

\* a trigger: whether it came with the network up, room in the queue and no
\* trigger in the minimum interval before it, and how it ended
TriggerRecord(eligible, result) == [eligible |-> eligible, result |-> result]

NoTrigger == TriggerRecord(FALSE, "none")

\* the configuration in memory that the readers of config.display and
\* config.buttons see
Config(sch, b, th, dn, bs) ==
    [schedule |-> sch, brightness |-> b, theme |-> th, dayNight |-> dn, buttons |-> bs]

NoConfig == [none |-> TRUE]

\* button id -> btn.state
StatesOf(bs) == [id \in DOMAIN bs |-> bs[id].state]

\* setAllButtons(state) about to write the button at index `next`
Loop(scene, st, next) == [scene |-> scene, state |-> st, next |-> next]

NoLoop == Loop(0, FALSE, 0)

\* The state after the global constructors have run; the persisted
\* configuration document is an input.
Init ==
    /\ started = FALSE
    /\ now = U32(0)
    /\ advances = 0
    /\ wifi \in BOOLEAN
    /\ rtcYear = 1970
    /\ wall \in TimesOfDay
    /\ synced = FALSE
    /\ lastSyncAttempt = U32(0)
    /\ lastSuccessfulSync = U32(0)
    /\ currentTimezone = "MST7MDT,M3.2.0,M11.1.0"
    /\ syncOutcome = "none"
    /\ schedule \in Schedules
    /\ displayBrightness \in ManualBrightness
    /\ displayTheme = DefaultTheme
    /\ dayNight \in DayNightConfigs
    /\ currentTheme = "dark_mode"
    /\ currentAppliedTheme = ""
    /\ wasNightTime = FALSE
    /\ initialized = FALSE
    /\ crossed = FALSE
    /\ posted = "none"
    /\ currentBrightness = 0
    /\ needsRebuild = FALSE
    /\ state = "SCHEDULED"
    /\ currentScheduledBrightness = DEFAULT_SCHEDULED_BRIGHTNESS
    /\ lastAppliedBrightness = INVALID_BRIGHTNESS
    /\ wakeStartTime = U32(0)
    /\ wakeGraceEndTime = U32(0)
    /\ currentPeriodIndex = -1
    /\ lastCall = "none"
    /\ lastRet = FALSE
    /\ lastWrote = FALSE
    /\ updRun = 0
    /\ isTouched = FALSE
    /\ indevState = "RELEASED"
    /\ wakeContact = FALSE
    /\ woke = FALSE
    /\ wokeAt = U32(0)
    /\ buttons = DefaultButtons
    /\ httpQueue = << >>
    /\ queueOk = FALSE
    /\ lastWebhookTime = U32(0)
    /\ workerPc = "unborn"
    /\ workerRequest = NoRequest
    /\ workerDelayStart = U32(0)
    /\ lastTrigger = NoTrigger
    /\ quiet = WEBHOOK_MIN_INTERVAL
    /\ query = NoQuery
    /\ queryResult = NoResult
    /\ handlerPc = "idle"
    /\ handlerDoc = InvalidDoc
    /\ handlerOld = NoConfig
    /\ serverConnected = FALSE
    /\ lastServerCheck = U32(0)
    /\ lastWrite = StatesOf(buttons)
    /\ sceneLoop = NoLoop
    /\ sinceSync = SYNC_INTERVAL_MS
    /\ rebuildFadeInProgress = FALSE
    /\ rebuildFadeStep = 0
    /\ rebuildTargetBrightness = DEFAULT_BRIGHTNESS
    /\ fadeValue = FADE_START
    /\ reportingUrl = DefaultUrl
    /\ serverChangePending = FALSE
    /\ newReportingUrl = NoUrl
    /\ overlay = "null"

\* ------------------------------------------------------------------------
\* Environment: the tick counter, WiFi, the system clock
\* ------------------------------------------------------------------------

\* a long stretch that takes the tick counter close to its wrap: 2^32 - 200 ms
LongIdle == <<Half - 1, Half - 200>>

\* ms since the last webhook trigger once d more have passed
QuietAfter(q, d) ==
    IF d[1] > 0 \/ d[2] >= WEBHOOK_MIN_INTERVAL - q THEN WEBHOOK_MIN_INTERVAL ELSE q + d[2]

\* ms since the last sync attempt of TimeManager::update() once d more have passed
SinceSyncAfter(q, d) ==
    IF d[1] > SYNC_INTERVAL_MS \div Half THEN SYNC_INTERVAL_MS
    ELSE IF d[1] * Half + d[2] >= SYNC_INTERVAL_MS - q THEN SYNC_INTERVAL_MS
    ELSE q + d[1] * Half + d[2]

\* other call made between two update() calls
OtherCall == /\ lastCall' = "other"
             /\ lastRet' = FALSE
             /\ lastWrote' = FALSE
             /\ updRun' = 0

\* millis() moves on by d
Advance(d) ==
    /\ started
    /\ advances < MaxAdvances
    /\ advances' = advances + 1
    /\ now' = Add32(now, d)
    /\ quiet' = QuietAfter(quiet, d)
    /\ sinceSync' = SinceSyncAfter(sinceSync, d)
    /\ OtherCall
    /\ UNCHANGED <<started, wifi, rtcYear, wall>>
    /\ UNCHANGED <<tmVars, cfgVars, uiVars, bsVars, touchVars, pfVars, thVars>>
    /\ UNCHANGED <<hVars, probeVars, pnVars, wrVars>>
    /\ UNCHANGED <<buttons, httpQueue, queueOk, lastWebhookTime, workerPc, workerRequest,
                   workerDelayStart, lastTrigger>>

\* WiFi connects or drops
WifiChange ==
    /\ started
    /\ wifi' = ~wifi
    /\ OtherCall
    /\ UNCHANGED <<started, now, advances, rtcYear, wall>>
    /\ UNCHANGED <<tmVars, cfgVars, uiVars, bsVars, touchVars, dcVars, pfVars, thVars,
                   cxVars>>

\* the SNTP client started by configTzTime() sets the system clock
SntpSetsClock(t) ==
    /\ started
    /\ wifi
    /\ rtcYear' = 2025
    /\ wall' = t
    /\ OtherCall
    /\ UNCHANGED <<started, now, advances, wifi>>
    /\ UNCHANGED <<tmVars, cfgVars, uiVars, bsVars, touchVars, dcVars, pfVars, thVars,
                   cxVars>>

\* the time of day moves on
WallClockMoves(t) ==
    /\ started
    /\ t # wall
    /\ wall' = t
    /\ OtherCall
    /\ UNCHANGED <<started, now, advances, wifi, rtcYear>>
    /\ UNCHANGED <<tmVars, cfgVars, uiVars, bsVars, touchVars, dcVars, pfVars, thVars,
                   cxVars>>

\* getLocalTime(&timeinfo)
LocalTimeValid == rtcYear \notin UnsetYears

\* the hour and minute getLocalTime() gives for a clock showing w
HourOf(w) == IF LocalTimeValid THEN w.h ELSE 0
MinuteOf(w) == IF LocalTimeValid THEN w.m ELSE 0

\* ------------------------------------------------------------------------
\* TimeManager
\* ------------------------------------------------------------------------

\* bool TimeManager::checkSyncStatus()
checkSyncStatus == LocalTimeValid /\ rtcYear >= PLAUSIBLE_YEAR

\* uint8_t TimeManager::getCurrentHour() / getCurrentMinute()
getCurrentHour == IF LocalTimeValid THEN wall.h ELSE 0
getCurrentMinute == IF LocalTimeValid THEN wall.m ELSE 0

\* an attempt that stores the outcome of the check in the flag
SyncedFollowsCheck(ok) == ok

\* the synced flag after an attempt whose plausibility check gave ok
SyncedAfterAttempt(ok) == IF ok THEN TRUE ELSE synced

\* an attempt that records every check as a successful sync
SuccessTimeAlways(ok) == now

\* lastSuccessfulSync after an attempt whose plausibility check gave ok
SuccessTimeAfterAttempt(ok) == IF ok THEN now ELSE lastSuccessfulSync

\* void TimeManager::attemptSync()
attemptSync ==
    IF ~wifi
    THEN /\ syncOutcome' = "skipped"
         /\ UNCHANGED <<synced, lastSyncAttempt, lastSuccessfulSync>>
    ELSE /\ lastSyncAttempt' = now
         /\ synced' = SyncedAfterAttempt(checkSyncStatus)
         /\ lastSuccessfulSync' = SuccessTimeAfterAttempt(checkSyncStatus)
         /\ syncOutcome' = IF checkSyncStatus THEN "ok" ELSE "pending"

\* a call that reached the time check of attemptSync(), or did not
SyncCall(name, attempted) ==
    /\ lastCall' = IF attempted THEN name ELSE "other"
    /\ lastRet' = FALSE
    /\ lastWrote' = FALSE
    /\ updRun' = 0

\* update() finds a sync attempt due
SyncDue ==
    IF ~synced
    THEN Ge32(Sub32(now, lastSyncAttempt), U32(SYNC_RETRY_MS))
    ELSE Ge32(Sub32(now, lastSuccessfulSync), U32(SYNC_INTERVAL_MS))

\* void TimeManager::update()
TimeManagerUpdate ==
    /\ started
    /\ IF SyncDue
       THEN attemptSync
       ELSE UNCHANGED <<synced, lastSyncAttempt, lastSuccessfulSync, syncOutcome>>
    /\ SyncCall("sync", SyncDue /\ wifi)
    /\ sinceSync' = IF SyncDue /\ wifi THEN 0 ELSE sinceSync
    /\ UNCHANGED <<currentTimezone, envVars, cfgVars, uiVars, bsVars, touchVars,
                 dcVars, pfVars, thVars, hVars, probeVars, pnVars, wrVars>>

\* void TimeManager::forceSync()
ForceSync ==
    /\ started
    /\ attemptSync
    /\ SyncCall("forceSync", wifi)
    /\ UNCHANGED <<currentTimezone, envVars, cfgVars, uiVars, bsVars, touchVars,
                 dcVars, pfVars, thVars, cxVars>>

\* the timezone after setTimezone(posixTimezone)
TimezoneAfterSet(posixTimezone) ==
    IF posixTimezone = "" THEN currentTimezone
    ELSE IF posixTimezone # currentTimezone THEN posixTimezone
    ELSE currentTimezone

\* void TimeManager::setTimezone(const String&): a changed zone changes the
\* local time of day that the system clock shows
SetTimezone(posixTimezone, t) ==
    /\ started
    /\ currentTimezone' = TimezoneAfterSet(posixTimezone)
    /\ wall' = IF currentTimezone' # currentTimezone THEN t ELSE wall
    /\ OtherCall
    /\ UNCHANGED <<started, now, advances, wifi, rtcYear>>
    /\ UNCHANGED <<synced, lastSyncAttempt, lastSuccessfulSync, syncOutcome>>
    /\ UNCHANGED <<cfgVars, uiVars, bsVars, touchVars, dcVars, pfVars, thVars, cxVars>>

\* an injection that counts only with the network up
SyncedIfConnected == wifi

\* synced = true
SyncedAfterInjection == TRUE

\* void TimeManager::setTimeFromServer(uint32_t unixTimestamp)
SetTimeFromServer(year, t) ==
    /\ started
    /\ rtcYear' = year
    /\ wall' = t
    /\ synced' = SyncedAfterInjection
    /\ lastSuccessfulSync' = now
    /\ lastCall' = "setTime"
    /\ lastRet' = FALSE
    /\ lastWrote' = FALSE
    /\ updRun' = 0
    /\ UNCHANGED <<started, now, advances, wifi>>
    /\ UNCHANGED <<lastSyncAttempt, currentTimezone, syncOutcome>>
    /\ UNCHANGED <<cfgVars, uiVars, bsVars, touchVars, dcVars, pfVars, thVars, cxVars>>

\* ------------------------------------------------------------------------
\* BrightnessScheduler
\* ------------------------------------------------------------------------

\* the scheduler's private fields as one record
Scheduler ==
    [state |-> state,
     currentScheduledBrightness |-> currentScheduledBrightness,
     lastAppliedBrightness |-> lastAppliedBrightness,
     wakeStartTime |-> wakeStartTime,
     wakeGraceEndTime |-> wakeGraceEndTime,
     currentPeriodIndex |-> currentPeriodIndex]

\* what a call leaves behind: the fields, the return value, and the value
\* handed to uiManager.setBrightness() if the call wrote one
Outcome(bs, ret, wrote, value) ==
    [bs |-> bs, ret |-> ret, wrote |-> wrote, value |-> value]

\* uint8_t getPeriodBrightness(int8_t periodIndex)
getPeriodBrightness(sch, manual, periodIndex) ==
    IF periodIndex < 0 \/ periodIndex >= Len(sch.periods)
    THEN manual
    ELSE sch.periods[periodIndex + 1].brightness

\* a wake that ends only once the elapsed time exceeds the timeout
WakeTimedOutStrict(millis, wakeStart, displayTimeout) ==
    ~Ge32(U32(displayTimeout * 1000), Sub32(millis, wakeStart))

\* elapsed >= schedule.displayTimeout * 1000UL
WakeTimedOut(millis, wakeStart, displayTimeout) ==
    Ge32(Sub32(millis, wakeStart), U32(displayTimeout * 1000))

\* an update that applies the target and forgets to record it
CacheKept(old, target) == old

\* lastAppliedBrightness after applyBrightness(target)
CacheApplied(old, target) == target

\* actualBrightness <= 5
IsDim(actualBrightness) == actualBrightness <= DIM_THRESHOLD

\* millis() + WAKE_GRACE_PERIOD_MS
GraceEnd(millis) == Add32(millis, U32(WAKE_GRACE_PERIOD_MS))

\* millis() < wakeGraceEndTime
InGrace(millis, graceEnd) == Lt32(millis, graceEnd)

\* bool BrightnessScheduler::update(), time synced, periods configured
UpdateSynced(bs, sch, manual, hour, minute, millis) ==
    LET timedOut == bs.state = "AWAKE"
                    /\ WakeTimedOut(millis, bs.wakeStartTime, sch.displayTimeout)
        s1 == IF timedOut
              THEN [bs EXCEPT !.state = "SCHEDULED",
                              !.lastAppliedBrightness = INVALID_BRIGHTNESS]
              ELSE bs
        periodIndex == findActivePeriod(sch.periods, hour, minute)
        s2 == IF periodIndex # s1.currentPeriodIndex
              THEN [s1 EXCEPT !.currentPeriodIndex = periodIndex,
                              !.currentScheduledBrightness =
                                  getPeriodBrightness(sch, manual, periodIndex)]
              ELSE s1
        targetBrightness == IF s2.state = "AWAKE" THEN sch.touchBrightness
                            ELSE s2.currentScheduledBrightness
    IN  IF targetBrightness # s2.lastAppliedBrightness
        THEN Outcome([s2 EXCEPT !.lastAppliedBrightness =
                                    CacheApplied(s2.lastAppliedBrightness, targetBrightness)],
                     TRUE, TRUE, targetBrightness)
        ELSE Outcome(s2, FALSE, FALSE, 0)

\* a fallback that is written on every tick
FallbackAlways(lastApplied) == TRUE

\* lastAppliedBrightness != 50
FallbackNeeded(lastApplied) == lastApplied # FALLBACK_BRIGHTNESS

\* bool BrightnessScheduler::update()
update(bs, sch, manual, isSynced, hour, minute, millis) ==
    IF ~sch.enabled THEN Outcome(bs, FALSE, FALSE, 0)
    ELSE IF Len(sch.periods) = 0 THEN Outcome(bs, FALSE, FALSE, 0)
    ELSE IF ~isSynced
         THEN IF FallbackNeeded(bs.lastAppliedBrightness)
              THEN Outcome([bs EXCEPT !.lastAppliedBrightness = FALLBACK_BRIGHTNESS],
                           TRUE, TRUE, FALLBACK_BRIGHTNESS)
              ELSE Outcome(bs, FALSE, FALSE, 0)
    ELSE UpdateSynced(bs, sch, manual, hour, minute, millis)

\* a touch while awake that leaves the wake timer alone
KeepWake(bs, millis) == bs

\* wakeStartTime = millis() of the touch while awake
RestartWake(bs, millis) == [bs EXCEPT !.wakeStartTime = millis]

\* a touch handler that wakes a dim display whether or not the schedule is
\* enabled
onTouchDetectedAlways(bs, sch, actualBrightness, millis) ==
    IF IsDim(actualBrightness)
    THEN Outcome([bs EXCEPT !.state = "AWAKE",
                            !.wakeStartTime = millis,
                            !.wakeGraceEndTime = GraceEnd(millis),
                            !.lastAppliedBrightness = sch.touchBrightness],
                 TRUE, TRUE, sch.touchBrightness)
    ELSE IF bs.state = "AWAKE"
         THEN Outcome(RestartWake(bs, millis), FALSE, FALSE, 0)
    ELSE Outcome(bs, FALSE, FALSE, 0)

\* bool BrightnessScheduler::onTouchDetected()
onTouchDetected(bs, sch, actualBrightness, millis) ==
    IF ~sch.enabled THEN Outcome(bs, FALSE, FALSE, 0)
    ELSE IF IsDim(actualBrightness)
         THEN Outcome([bs EXCEPT !.state = "AWAKE",
                                 !.wakeStartTime = millis,
                                 !.wakeGraceEndTime = GraceEnd(millis),
                                 !.lastAppliedBrightness = sch.touchBrightness],
                      TRUE, TRUE, sch.touchBrightness)
    ELSE IF bs.state = "AWAKE"
         THEN Outcome(RestartWake(bs, millis), FALSE, FALSE, 0)
    ELSE Outcome(bs, FALSE, FALSE, 0)

\* bool BrightnessScheduler::shouldBlockButtons() const
shouldBlockButtons(sch, graceEnd, actualBrightness, millis) ==
    IF ~sch.enabled THEN FALSE
    ELSE IF InGrace(millis, graceEnd) THEN TRUE
    ELSE IsDim(actualBrightness)

\* a refresh that resets nothing
KeptForRefresh(bs) == bs

\* state = SCHEDULED; currentPeriodIndex = -1; lastAppliedBrightness = 255
ResetForRefresh(bs) ==
    [bs EXCEPT !.state = "SCHEDULED",
               !.currentPeriodIndex = -1,
               !.lastAppliedBrightness = INVALID_BRIGHTNESS]

\* void BrightnessScheduler::refresh(), after its call of setTimezone()
refresh(bs, sch, isSynced, hour, minute) ==
    IF ~sch.enabled THEN Outcome(bs, FALSE, FALSE, 0)
    ELSE LET s1 == ResetForRefresh(bs)
             periodIndex == findActivePeriod(sch.periods, hour, minute)
         IN  IF isSynced /\ Len(sch.periods) > 0
             THEN IF periodIndex >= 0
                  THEN LET b == sch.periods[periodIndex + 1].brightness
                       IN  Outcome([s1 EXCEPT !.currentPeriodIndex = periodIndex,
                                              !.currentScheduledBrightness = b,
                                              !.lastAppliedBrightness = b],
                                   FALSE, TRUE, b)
                  ELSE Outcome(s1, FALSE, FALSE, 0)
             ELSE IF ~isSynced
                  THEN Outcome([s1 EXCEPT !.lastAppliedBrightness = FALLBACK_BRIGHTNESS],
                               FALSE, TRUE, FALLBACK_BRIGHTNESS)
                  ELSE Outcome(s1, FALSE, FALSE, 0)

\* the scheduler's fields take the values an outcome holds
StoreScheduler(o) ==
    /\ state' = o.bs.state
    /\ currentScheduledBrightness' = o.bs.currentScheduledBrightness
    /\ lastAppliedBrightness' = o.bs.lastAppliedBrightness
    /\ wakeStartTime' = o.bs.wakeStartTime
    /\ wakeGraceEndTime' = o.bs.wakeGraceEndTime
    /\ currentPeriodIndex' = o.bs.currentPeriodIndex

\* UIManager::currentBrightness after a call that may have written
BrightnessAfter(o, before) == IF o.wrote THEN o.value ELSE before

\* ------------------------------------------------------------------------
\* ThemeEngine and ThemeScheduler
\* ------------------------------------------------------------------------

\* the names getThemeByName() resolves
KnownThemes == {"light_mode", "neon_cyberpunk", "dark_mode", "lcars"}

\* bool ThemeEngine::setTheme(const String&): the theme in use afterwards
setTheme(engine, themeName) == IF themeName \in KnownThemes THEN themeName ELSE engine

\* a day that ends one hour late
isDayTimeLate(hour, config) ==
    IF config.dayStartHour < config.nightStartHour
    THEN hour >= config.dayStartHour /\ hour <= config.nightStartHour
    ELSE IF config.dayStartHour > config.nightStartHour
         THEN hour >= config.dayStartHour \/ hour < config.nightStartHour
    ELSE TRUE

\* bool ThemeScheduler::isDayTime(uint8_t hour) const
isDayTime(hour, config) ==
    IF config.dayStartHour < config.nightStartHour
    THEN hour >= config.dayStartHour /\ hour < config.nightStartHour
    ELSE IF config.dayStartHour > config.nightStartHour
         THEN hour >= config.dayStartHour \/ hour < config.nightStartHour
    ELSE TRUE

\* a target that is the day theme at every hour
TargetThemeDay(config, hour) == config.dayTheme

\* isDay ? config.dayTheme : config.nightTheme
TargetTheme(config, hour) ==
    IF isDayTime(hour, config) THEN config.dayTheme ELSE config.nightTheme

\* the theme scheduler's private fields as one record
ThemeSched ==
    [currentAppliedTheme |-> currentAppliedTheme,
     wasNightTime |-> wasNightTime,
     initialized |-> initialized]

\* what a call leaves behind: the fields, the theme engine's theme, the
\* return value, and whether it set a theme and requested a rebuild
ThemeOutcome(ts, engine, ret, applied) ==
    [ts |-> ts, engine |-> engine, ret |-> ret, applied |-> applied]

\* void ThemeScheduler::applyTheme(const String&); ret is what the caller
\* returns afterwards
applyTheme(ts, engine, themeName, ret) ==
    IF themeName \in KnownThemes
    THEN ThemeOutcome([ts EXCEPT !.currentAppliedTheme = themeName],
                      setTheme(engine, themeName), ret, TRUE)
    ELSE ThemeOutcome(ts, setTheme(engine, themeName), ret, FALSE)

\* an evaluation that records nothing
StatusKept(ts, isNight) == ts

\* the day/night status an evaluation records
StatusRecorded(ts, isNight) == [ts EXCEPT !.wasNightTime = isNight, !.initialized = TRUE]

\* bool ThemeScheduler::update()
ThemeScheduler_update(ts, engine, config, isSynced, hour) ==
    IF ~config.enabled THEN ThemeOutcome(ts, engine, FALSE, FALSE)
    ELSE IF ~isSynced THEN ThemeOutcome(ts, engine, FALSE, FALSE)
    ELSE LET isNight == ~isDayTime(hour, config)
             targetTheme == TargetTheme(config, hour)
         IN  IF ts.initialized /\ isNight = ts.wasNightTime
             THEN ThemeOutcome(ts, engine, FALSE, FALSE)
             ELSE IF targetTheme = ts.currentAppliedTheme
                  THEN ThemeOutcome(StatusRecorded(ts, isNight), engine, FALSE, FALSE)
             ELSE LET o == applyTheme(ts, engine, targetTheme, TRUE)
                  IN  [o EXCEPT !.ts = StatusRecorded(o.ts, isNight)]

\* a refresh that keeps the applied theme's name
InitializedForgotten(ts) == [ts EXCEPT !.initialized = FALSE]

\* initialized = false; currentAppliedTheme = ""
ForcedReevaluation(ts) == [ts EXCEPT !.initialized = FALSE, !.currentAppliedTheme = ""]

\* void ThemeScheduler::refresh()
ThemeScheduler_refresh(ts, engine, config, isSynced, hour) ==
    IF ~config.enabled
    THEN ThemeOutcome([ts EXCEPT !.initialized = FALSE], engine, FALSE, FALSE)
    ELSE LET s1 == ForcedReevaluation(ts)
         IN  IF isSynced
             THEN LET o == applyTheme(s1, engine, TargetTheme(config, hour), FALSE)
                  IN  [o EXCEPT !.ts = StatusRecorded(o.ts, ~isDayTime(hour, config))]
             ELSE ThemeOutcome(s1, engine, FALSE, FALSE)

\* the theme scheduler's and the theme engine's fields take the values an
\* outcome holds
StoreThemeScheduler(o) ==
    /\ currentAppliedTheme' = o.ts.currentAppliedTheme
    /\ wasNightTime' = o.ts.wasNightTime
    /\ initialized' = o.ts.initialized
    /\ currentTheme' = o.engine

\* ------------------------------------------------------------------------
\* Handlers that drive the scheduler
\* ------------------------------------------------------------------------

NoteCall(name, o) ==
    /\ lastCall' = name
    /\ lastRet' = o.ret
    /\ lastWrote' = o.wrote
    /\ updRun' = IF name = "update" THEN (IF updRun < 2 THEN updRun + 1 ELSE 2) ELSE 0

\* brightnessScheduler.refresh() with schedule sch in force, starting from
\* display brightness `before`; t is the local time of day under a changed
\* timezone
RefreshWith(sch, before, t) ==
    /\ currentTimezone' = IF sch.enabled THEN TimezoneAfterSet(sch.timezone)
                          ELSE currentTimezone
    /\ wall' = IF currentTimezone' # currentTimezone THEN t ELSE wall
    /\ LET o == refresh(Scheduler, sch, synced, HourOf(wall'), MinuteOf(wall'))
       IN  /\ StoreScheduler(o)
           /\ currentBrightness' = BrightnessAfter(o, before)
           /\ NoteCall("refresh", o)

\* the configuration in force after parseConfigJson(doc); an unparsable
\* document leaves it as it is
ParsedSchedule(doc) == IF ~doc.valid THEN schedule ELSE doc.schedule
\* display["brightness"] | 80
ParsedBrightness(doc) ==
    IF ~doc.valid THEN displayBrightness
    ELSE IF "brightness" \in DOMAIN doc THEN doc.brightness
    ELSE DEFAULT_BRIGHTNESS
\* config.buttons.clear(); for (JsonObject btn : buttons) ...
ParsedButtons(doc) ==
    IF ~doc.valid THEN buttons
    ELSE IF "buttons" \in DOMAIN doc THEN doc.buttons
    ELSE NoButtons
\* server["reportingUrl"] | "", then built from host and port if empty
ParsedReportingUrl(doc) ==
    IF ~doc.valid THEN reportingUrl
    ELSE IF "reportingUrl" \in DOMAIN doc /\ doc.reportingUrl # NoUrl THEN doc.reportingUrl
    ELSE DefaultUrl
\* a parser that fills in the default theme before it finds the text unparsable
ParsedThemeOrDefault(doc) ==
    IF doc.valid /\ "theme" \in DOMAIN doc THEN doc.theme ELSE DefaultTheme
\* display["theme"] | "dark_clean"
ParsedTheme(doc) ==
    IF ~doc.valid THEN displayTheme
    ELSE IF "theme" \in DOMAIN doc THEN doc.theme
    ELSE DefaultTheme
\* dayNight["enabled"] | false, dayNight["dayTheme"] | "light_mode", ...
ParsedDayNight(doc) ==
    IF ~doc.valid THEN dayNight
    ELSE IF "dayNight" \in DOMAIN doc THEN doc.dayNight
    ELSE DefaultDayNight

\* setup(): uiManager.begin(), tryFetchServerConfig(), uiManager.createUI(),
\* deviceController.begin(), timeManager.begin(), brightnessScheduler.begin()
Setup(fetched, created, t) ==
    /\ ~started
    /\ started' = TRUE
    /\ fetched.valid => wifi
    /\ schedule' = ParsedSchedule(fetched)
    /\ displayBrightness' = ParsedBrightness(fetched)
    /\ buttons' = ParsedButtons(fetched)
    /\ displayTheme' = ParsedTheme(fetched)
    /\ dayNight' = ParsedDayNight(fetched)
    /\ currentTheme' = setTheme(currentTheme, displayTheme')
    /\ UNCHANGED <<currentAppliedTheme, wasNightTime, initialized, crossed, posted>>
    /\ needsRebuild' = FALSE
    /\ queueOk' = created
    /\ workerPc' = "wait"
    /\ RefreshWith(schedule', displayBrightness, t)
    /\ now' = Add32(now, U32(SETUP_DELAY_MS))
    /\ UNCHANGED <<advances, wifi, rtcYear>>
    /\ UNCHANGED <<synced, lastSyncAttempt, lastSuccessfulSync, syncOutcome>>
    /\ UNCHANGED <<touchVars, pfVars>>
    /\ UNCHANGED <<httpQueue, lastWebhookTime, workerRequest, workerDelayStart, lastTrigger,
                   quiet>>
    /\ lastWrite' = StatesOf(buttons')
    /\ UNCHANGED <<hVars, probeVars, pnVars, sceneLoop, sinceSync>>

\* loop(): brightnessScheduler.update()
BrightnessUpdate ==
    /\ started
    /\ LET o == update(Scheduler, schedule, displayBrightness, synced,
                       getCurrentHour, getCurrentMinute, now)
       IN  /\ StoreScheduler(o)
           /\ currentBrightness' = BrightnessAfter(o, currentBrightness)
           /\ NoteCall("update", o)
    /\ UNCHANGED <<envVars, tmVars, cfgVars, needsRebuild, touchVars, dcVars, pfVars, thVars,
                   cxVars>>

\* the finger touches the panel / leaves it
FingerDown ==
    /\ started
    /\ ~isTouched
    /\ isTouched' = TRUE
    /\ OtherCall
    /\ UNCHANGED <<indevState, wakeContact, woke, wokeAt>>
    /\ UNCHANGED <<envVars, tmVars, cfgVars, uiVars, bsVars, dcVars, pfVars, thVars, cxVars>>

FingerUp ==
    /\ started
    /\ isTouched
    /\ isTouched' = FALSE
    /\ wakeContact' = FALSE
    /\ OtherCall
    /\ UNCHANGED <<indevState, woke, wokeAt>>
    /\ UNCHANGED <<envVars, tmVars, cfgVars, uiVars, bsVars, dcVars, pfVars, thVars, cxVars>>

\* data->state as my_touchpad_read() sets it
ReportedState(touched, consumed, blocked) ==
    IF touched
    THEN IF consumed THEN "RELEASED"
         ELSE IF blocked THEN "RELEASED"
         ELSE "PRESSED"
    ELSE "RELEASED"

\* void my_touchpad_read(lv_indev_drv_t*, lv_indev_data_t*)
TouchpadRead ==
    /\ started
    /\ IF isTouched
       THEN LET o == onTouchDetected(Scheduler, schedule, currentBrightness, now)
                b == BrightnessAfter(o, currentBrightness)
                blocked == shouldBlockButtons(schedule, o.bs.wakeGraceEndTime, b, now)
            IN  /\ StoreScheduler(o)
                /\ currentBrightness' = b
                /\ indevState' = ReportedState(TRUE, o.ret, blocked)
                /\ wakeContact' = (wakeContact \/ o.ret)
                /\ woke' = (woke \/ o.ret)
                /\ wokeAt' = IF o.ret THEN now ELSE wokeAt
                /\ NoteCall("touch", o)
       ELSE /\ indevState' = ReportedState(FALSE, FALSE, FALSE)
            /\ OtherCall
            /\ UNCHANGED <<bsVars, currentBrightness, wakeContact, woke, wokeAt>>
    /\ UNCHANGED <<isTouched, needsRebuild>>
    /\ UNCHANGED <<envVars, tmVars, cfgVars, dcVars, pfVars, thVars, cxVars>>

\* themeScheduler.refresh() with day/night settings dn in force, at the local
\* time of day the brightness scheduler's refresh() left
ThemeRefreshWith(dn) ==
    StoreThemeScheduler(ThemeScheduler_refresh(ThemeSched, currentTheme, dn, synced,
                                               HourOf(wall')))

\* POST /api/config: parseConfigJson(), saveConfig(), brightnessScheduler.refresh(),
\* themeScheduler.refresh(), requestRebuild()
ConfigPost(doc, t) ==
    /\ started
    /\ schedule' = ParsedSchedule(doc)
    /\ displayBrightness' = ParsedBrightness(doc)
    /\ buttons' = ParsedButtons(doc)
    /\ displayTheme' = ParsedTheme(doc)
    /\ dayNight' = ParsedDayNight(doc)
    /\ UNCHANGED crossed
    /\ posted' = DocKind(doc)
    /\ IF ~doc.valid
       THEN /\ lastCall' = "configRejected"
            /\ lastRet' = FALSE
            /\ lastWrote' = FALSE
            /\ updRun' = 0
            /\ UNCHANGED <<currentTimezone, wall, bsVars, uiVars, tsVars>>
       ELSE /\ RefreshWith(schedule', currentBrightness, t)
            /\ ThemeRefreshWith(dayNight')
            /\ needsRebuild' = TRUE
    /\ UNCHANGED <<started, now, advances, wifi, rtcYear>>
    /\ UNCHANGED <<synced, lastSyncAttempt, lastSuccessfulSync, syncOutcome>>
    /\ UNCHANGED <<touchVars, pfVars>>
    /\ UNCHANGED <<httpQueue, queueOk, lastWebhookTime, workerPc, workerRequest,
                   workerDelayStart, lastTrigger, quiet>>
    /\ lastWrite' = StatesOf(buttons')
    /\ reportingUrl' = ParsedReportingUrl(doc)
    /\ UNCHANGED <<hVars, probeVars, fadeVars, dlgVars, sceneLoop, sinceSync>>

\* config.display and config.buttons as they stand
ConfigNow == Config(schedule, displayBrightness, displayTheme, dayNight, buttons)

\* config.display and config.buttons once parseConfigJson(doc) has returned
ConfigOf(doc) ==
    Config(ParsedSchedule(doc), ParsedBrightness(doc), ParsedTheme(doc), ParsedDayNight(doc),
           ParsedButtons(doc))

\* what the steps of the POST /api/config handler leave alone
BesideHandler == <<envVars, tmVars, touchVars, pfVars, httpQueue, queueOk, lastWebhookTime,
                   workerPc, workerRequest, workerDelayStart, lastTrigger, quiet, probeVars,
                   fadeVars, dlgVars, sceneLoop, sinceSync>>

\* POST /api/config in the web server's task, step by step.
\* parseConfigJson(): deserializeJson() has accepted the body
HandlerBegin(doc) ==
    /\ started
    /\ handlerPc = "idle"
    /\ doc.valid
    /\ handlerPc' = "display"
    /\ handlerDoc' = doc
    /\ handlerOld' = ConfigNow
    /\ OtherCall
    /\ UNCHANGED <<cfgVars, uiVars, bsVars, buttons, thVars, lastWrite, currentTimezone, wall>>
    /\ UNCHANGED <<BesideHandler, reportingUrl>>

\* parseConfigJson(): config.display is assigned
HandlerDisplay ==
    /\ handlerPc = "display"
    /\ handlerPc' = "clear"
    /\ schedule' = ParsedSchedule(handlerDoc)
    /\ displayBrightness' = ParsedBrightness(handlerDoc)
    /\ displayTheme' = ParsedTheme(handlerDoc)
    /\ dayNight' = ParsedDayNight(handlerDoc)
    /\ OtherCall
    /\ UNCHANGED <<handlerDoc, handlerOld, uiVars, bsVars, buttons, tsVars, crossed, posted,
                   lastWrite, currentTimezone, wall>>
    /\ UNCHANGED <<BesideHandler, reportingUrl>>

\* parseConfigJson(): config.buttons.clear()
HandlerClearButtons ==
    /\ handlerPc = "clear"
    /\ handlerPc' = "buttons"
    /\ buttons' = NoButtons
    /\ lastWrite' = StatesOf(buttons')
    /\ OtherCall
    /\ UNCHANGED <<handlerDoc, handlerOld, cfgVars, uiVars, bsVars, thVars, currentTimezone,
                   wall>>
    /\ UNCHANGED <<BesideHandler, reportingUrl>>

\* parseConfigJson(): config.buttons.push_back(button) for every button of
\* the document, then config.server is assigned
HandlerButtons ==
    /\ handlerPc = "buttons"
    /\ handlerPc' = "apply"
    /\ buttons' = ParsedButtons(handlerDoc)
    /\ lastWrite' = StatesOf(buttons')
    /\ reportingUrl' = ParsedReportingUrl(handlerDoc)
    /\ OtherCall
    /\ UNCHANGED <<handlerDoc, handlerOld, cfgVars, uiVars, bsVars, thVars, currentTimezone,
                   wall>>
    /\ UNCHANGED BesideHandler

\* saveConfig(), brightnessScheduler.refresh(), themeScheduler.refresh(),
\* requestRebuild()
HandlerApply(t) ==
    /\ handlerPc = "apply"
    /\ handlerPc' = "idle"
    /\ handlerDoc' = InvalidDoc
    /\ handlerOld' = NoConfig
    /\ posted' = DocKind(handlerDoc)
    /\ RefreshWith(schedule, currentBrightness, t)
    /\ ThemeRefreshWith(dayNight)
    /\ needsRebuild' = TRUE
    /\ UNCHANGED <<cfgVars, tcVars, crossed, buttons, lastWrite>>
    /\ UNCHANGED <<started, now, advances, wifi, rtcYear>>
    /\ UNCHANGED <<synced, lastSyncAttempt, lastSuccessfulSync, syncOutcome>>
    /\ UNCHANGED <<touchVars, pfVars>>
    /\ UNCHANGED <<httpQueue, queueOk, lastWebhookTime, workerPc, workerRequest,
                   workerDelayStart, lastTrigger, quiet, probeVars, pnVars, sceneLoop,
                   sinceSync>>

\* bool ThemeScheduler::update(). loop() does not call it; it is the polling
\* entry point the scheduler offers.
ThemeUpdate ==
    /\ started
    /\ LET o == ThemeScheduler_update(ThemeSched, currentTheme, dayNight, synced,
                                      getCurrentHour)
       IN  /\ StoreThemeScheduler(o)
           /\ crossed' = (dayNight.enabled /\ synced /\ initialized
                           /\ wasNightTime = isDayTime(getCurrentHour, dayNight))
           /\ needsRebuild' = (needsRebuild \/ o.applied)
           /\ lastCall' = "themeUpdate"
           /\ lastRet' = o.ret
           /\ lastWrote' = o.applied
           /\ updRun' = 0
    /\ UNCHANGED <<envVars, tmVars, cfgVars, currentBrightness, bsVars, touchVars, dcVars,
                   pfVars, tcVars, posted, cxVars>>

\* POST /api/brightness with a value 0..100
SetBrightnessApi(brightness) ==
    /\ started
    /\ currentBrightness' = brightness
    /\ displayBrightness' = brightness
    /\ OtherCall
    /\ UNCHANGED <<schedule, needsRebuild>>
    /\ UNCHANGED <<envVars, tmVars, bsVars, touchVars, dcVars, pfVars, thVars, cxVars>>

\* ------------------------------------------------------------------------
\* UIManager: the rebuild with its brightness fade, the server-change dialog
\* ------------------------------------------------------------------------

\* what UIManager::update() reads and writes
Ui == [needsRebuild |-> needsRebuild, inProgress |-> rebuildFadeInProgress,
       step |-> rebuildFadeStep, target |-> rebuildTargetBrightness,
       fadeValue |-> fadeValue, brightness |-> currentBrightness, theme |-> currentTheme,
       overlay |-> overlay]

\* lv_obj_clean(lv_scr_act()) deletes every child of the screen; the pointer
\* serverChangeState.overlay keeps its value
Cleaned(dialog) == IF dialog = "shown" THEN "deleted" ELSE dialog

\* void UIManager::rebuildUI(): lv_obj_clean(), createUI() with
\* themeEngine.setTheme(config.display.theme)
rebuildUI(ui, theme) ==
    [ui EXCEPT !.theme = setTheme(ui.theme, theme), !.overlay = Cleaned(ui.overlay)]

\* update(): a requested rebuild starts unless one is in progress
FadeStarted(ui, manual) ==
    IF ui.needsRebuild /\ ~ui.inProgress
    THEN [ui EXCEPT !.needsRebuild = FALSE, !.inProgress = TRUE, !.step = 0,
                    !.target = manual]
    ELSE ui

\* case 0: one step of the fade out
FadeOut(ui) ==
    IF ui.fadeValue > 0
    THEN LET v == IF ui.fadeValue > FADE_STEP THEN ui.fadeValue - FADE_STEP ELSE 0
         IN  [ui EXCEPT !.fadeValue = v, !.brightness = v]
    ELSE [ui EXCEPT !.step = 1]

\* case 2: one step of the fade in
FadeIn(ui) ==
    IF ui.fadeValue < ui.target
    THEN LET v == IF ui.target > ui.fadeValue + FADE_STEP THEN ui.fadeValue + FADE_STEP
                  ELSE ui.target
         IN  [ui EXCEPT !.fadeValue = v, !.brightness = v]
    ELSE [ui EXCEPT !.brightness = ui.target, !.step = 3]

\* void UIManager::update(); manual and theme are config.display.brightness
\* and config.display.theme, elapsed says that 10 ms have passed since the
\* last fade step
UIManager_update(ui, manual, theme, elapsed) ==
    LET u == FadeStarted(ui, manual)
    IN  IF ~u.inProgress THEN u
        ELSE CASE u.step = 0 -> IF elapsed THEN FadeOut(u) ELSE u
               [] u.step = 1 -> [rebuildUI(u, theme) EXCEPT !.fadeValue = 0, !.step = 2]
               [] u.step = 2 -> IF elapsed THEN FadeIn(u) ELSE u
               [] OTHER -> [u EXCEPT !.inProgress = FALSE, !.step = 0,
                                     !.fadeValue = FADE_START]

\* the members update() leaves behind, the brightness aside
StoreUi(u) ==
    /\ needsRebuild' = u.needsRebuild
    /\ rebuildFadeInProgress' = u.inProgress
    /\ rebuildFadeStep' = u.step
    /\ rebuildTargetBrightness' = u.target
    /\ fadeValue' = u.fadeValue
    /\ currentTheme' = u.theme
    /\ overlay' = u.overlay

\* loop(): uiManager.update()
UiUpdate(elapsed) ==
    /\ started
    /\ LET u == UIManager_update(Ui, displayBrightness, displayTheme, elapsed)
       IN  /\ StoreUi(u)
           /\ currentBrightness' = u.brightness
    /\ lastCall' = "uiUpdate"
    /\ lastRet' = FALSE
    /\ lastWrote' = (currentBrightness' # currentBrightness)
    /\ updRun' = 0
    /\ UNCHANGED <<envVars, tmVars, cfgVars, bsVars, touchVars, dcVars, pfVars>>
    /\ UNCHANGED <<tcVars, currentAppliedTheme, wasNightTime, initialized, crossed, posted>>
    /\ UNCHANGED <<hVars, probeVars, reportingUrl, serverChangePending, newReportingUrl,
                   wrVars, sinceSync>>

\* url.startsWith("http://") || url.startsWith("https://")
IsHttpUrl(url) == url.scheme \in {"http://", "https://"}

\* the status POST /api/server answers with
ServerChangeStatus(url) ==
    IF url = NoUrl THEN 400
    ELSE IF ~IsHttpUrl(url) THEN 400
    ELSE IF url = reportingUrl THEN 200
    ELSE IF serverChangePending THEN 409
    ELSE 202

\* POST /api/server with a document that parses: on 202,
\* uiManager.showServerChangeConfirmation(url)
ServerChangeRequest(url) ==
    /\ started
    /\ IF ServerChangeStatus(url) = 202
       THEN /\ serverChangePending' = TRUE
            /\ newReportingUrl' = url
            /\ overlay' = "shown"
       ELSE UNCHANGED dlgVars
    /\ lastCall' = "serverChange"
    /\ lastRet' = (ServerChangeStatus(url) = 202)
    /\ lastWrote' = FALSE
    /\ updRun' = 0
    /\ UNCHANGED <<envVars, tmVars, cfgVars, uiVars, bsVars, touchVars, dcVars, pfVars, thVars>>
    /\ UNCHANGED <<hVars, probeVars, fadeVars, reportingUrl, wrVars, sinceSync>>

\* void UIManager::hideServerChangeConfirmation() with the dialog on screen
hideServerChangeConfirmation ==
    /\ overlay' = "null"
    /\ serverChangePending' = FALSE
    /\ newReportingUrl' = NoUrl

\* onServerChangeAccept(): the user clicks Accept in the dialog
ServerChangeAccept ==
    /\ started
    /\ overlay = "shown"
    /\ reportingUrl' = newReportingUrl
    /\ hideServerChangeConfirmation
    /\ lastCall' = "accept"
    /\ lastRet' = FALSE
    /\ lastWrote' = FALSE
    /\ updRun' = 0
    /\ UNCHANGED <<envVars, tmVars, cfgVars, uiVars, bsVars, touchVars, dcVars, pfVars, thVars>>
    /\ UNCHANGED <<hVars, probeVars, fadeVars, wrVars, sinceSync>>

\* onServerChangeReject(): the user clicks Reject in the dialog
ServerChangeReject ==
    /\ started
    /\ overlay = "shown"
    /\ hideServerChangeConfirmation
    /\ lastCall' = "reject"
    /\ lastRet' = FALSE
    /\ lastWrote' = FALSE
    /\ updRun' = 0
    /\ UNCHANGED <<envVars, tmVars, cfgVars, uiVars, bsVars, touchVars, dcVars, pfVars, thVars>>
    /\ UNCHANGED <<hVars, probeVars, fadeVars, reportingUrl, wrVars, sinceSync>>

\* ------------------------------------------------------------------------
\* DeviceController: webhooks, the request queue and its worker task
\* ------------------------------------------------------------------------

\* config.scenes as createDefaultConfig() makes them: scene id -> name
SceneNames == <<"All Off", "All On">>

\* a write that reaches every button
setButtonStateOfAll(bs, buttonId, st) == [id \in DOMAIN bs |-> [bs[id] EXCEPT !.state = st]]

\* void ConfigManager::setButtonState(uint8_t buttonId, bool state)
setButtonState(bs, buttonId, st) ==
    IF buttonId \in DOMAIN bs THEN [bs EXCEPT ![buttonId].state = st] ELSE bs

\* the record of writes after `st` was written to buttonId
Written(w, buttonId, st) == IF buttonId \in DOMAIN w THEN [w EXCEPT ![buttonId] = st] ELSE w

\* void DeviceController::setAllButtons(bool state)
setAllButtons(bs, st) == [id \in DOMAIN bs |-> [bs[id] EXCEPT !.state = st]]

\* a send that waits for room
xQueueSendWaits(q, ticksToWait) == Len(q) < HTTP_QUEUE_SIZE

\* xQueueSend(httpQueue, &request, ticksToWait) comes back: at once with no
\* ticks to wait, else only when the queue has room
xQueueSendReturns(q, ticksToWait) == ticksToWait = 0 \/ Len(q) < HTTP_QUEUE_SIZE

\* a full queue that gives up its oldest request for the new one
httpPostAsyncEvictOldest(q, ok, request) ==
    IF ~ok THEN [queue |-> q, result |-> "noqueue"]
    ELSE IF Len(q) < HTTP_QUEUE_SIZE
         THEN [queue |-> Append(q, request), result |-> "queued"]
         ELSE [queue |-> Append(Tail(q), request), result |-> "full"]

\* void DeviceController::httpPostAsync(url, payload)
httpPostAsync(q, ok, request) ==
    IF ~ok THEN [queue |-> q, result |-> "noqueue"]
    ELSE IF Len(q) < HTTP_QUEUE_SIZE
         THEN [queue |-> Append(q, request), result |-> "queued"]
         ELSE [queue |-> q, result |-> "full"]

\* now - lastWebhookTime < WEBHOOK_MIN_INTERVAL
RateLimited(millis, last) == Lt32(Sub32(millis, last), U32(WEBHOOK_MIN_INTERVAL))

\* a webhook that is sent only while the server counts as connected
sendWebhookIfConnected(q, ok, last, request, millis, wifiUp) ==
    IF RateLimited(millis, last)
    THEN [queue |-> q, lastWebhookTime |-> last, result |-> "limited"]
    ELSE IF ~wifiUp \/ ~serverConnected
         THEN [queue |-> q, lastWebhookTime |-> millis, result |-> "nowifi"]
         ELSE LET r == httpPostAsync(q, ok, request)
              IN  [queue |-> r.queue, lastWebhookTime |-> millis, result |-> r.result]

\* void DeviceController::sendButtonWebhook() / sendSceneWebhook()
sendWebhook(q, ok, last, request, millis, wifiUp) ==
    IF RateLimited(millis, last)
    THEN [queue |-> q, lastWebhookTime |-> last, result |-> "limited"]
    ELSE IF ~wifiUp
         THEN [queue |-> q, lastWebhookTime |-> millis, result |-> "nowifi"]
         ELSE LET r == httpPostAsync(q, ok, request)
              IN  [queue |-> r.queue, lastWebhookTime |-> millis, result |-> r.result]

\* a UI callback that ends in a webhook for `request`, leaving config.buttons
\* as newButtons
Trigger(request, newButtons) ==
    /\ started
    /\ LET r == sendWebhook(httpQueue, queueOk, lastWebhookTime, request, now, wifi)
       IN  /\ r.result \in {"queued", "full"} => xQueueSendReturns(httpQueue, 0)
           /\ httpQueue' = r.queue
           /\ lastWebhookTime' = r.lastWebhookTime
           /\ lastTrigger' = TriggerRecord(/\ quiet >= WEBHOOK_MIN_INTERVAL
                                            /\ wifi
                                            /\ queueOk
                                            /\ Len(httpQueue) < HTTP_QUEUE_SIZE,
                                            r.result)
    /\ quiet' = 0
    /\ buttons' = newButtons
    /\ lastCall' = "webhook"
    /\ lastRet' = FALSE
    /\ lastWrote' = FALSE
    /\ updRun' = 0
    /\ UNCHANGED <<queueOk, workerPc, workerRequest, workerDelayStart>>
    /\ UNCHANGED <<envVars, tmVars, cfgVars, uiVars, bsVars, touchVars, pfVars, thVars>>
    /\ UNCHANGED <<hVars, probeVars, pnVars, sinceSync>>

\* void DeviceController::onButtonStateChanged(buttonId, newState), called
\* with the toggled state of the card
ButtonPressed(buttonId) ==
    LET newState == ~buttons[buttonId].state
    IN  /\ sceneLoop = NoLoop
        /\ UNCHANGED sceneLoop
        /\ IF buttons[buttonId].type = "SCENE"
           THEN /\ Trigger(Request("button", buttonId, TRUE), buttons)
                /\ UNCHANGED lastWrite
           ELSE /\ Trigger(Request("button", buttonId, newState),
                           setButtonState(buttons, buttonId, newState))
                /\ lastWrite' = Written(lastWrite, buttonId, newState)

\* void DeviceController::onSceneActivated(uint8_t sceneId)
SceneActivated(sceneId) ==
    LET name == SceneNames[sceneId]
        newButtons == IF name = "All Off" THEN setAllButtons(buttons, FALSE)
                      ELSE IF name = "All On" THEN setAllButtons(buttons, TRUE)
                      ELSE buttons
    IN  /\ sceneLoop = NoLoop
        /\ UNCHANGED sceneLoop
        /\ Trigger(Request("scene", sceneId, FALSE), newButtons)
        /\ lastWrite' = IF name = "All Off" THEN [id \in DOMAIN lastWrite |-> FALSE]
                        ELSE IF name = "All On" THEN [id \in DOMAIN lastWrite |-> TRUE]
                        ELSE lastWrite

\* a task that takes the next request while its call is still in progress
WorkerAnytime == workerPc \in {"wait", "post"}

\* httpWorkerTask: the one task is at the top of its loop, in xQueueReceive()
WorkerIdle == workerPc = "wait"

\* a queue that hands over its newest request
xQueueReceiveNewest(q) == [request |-> q[Len(q)], queue |-> SubSeq(q, 1, Len(q) - 1)]

\* xQueueReceive(httpQueue, &request, portMAX_DELAY) on a queue that holds
\* a request: the oldest one is handed over
xQueueReceive(q) == [request |-> Head(q), queue |-> Tail(q)]

\* httpWorkerTask: xQueueReceive() hands over the oldest request; with WiFi
\* down the request is dropped
WorkerReceive ==
    /\ started
    /\ queueOk
    /\ WorkerIdle
    /\ Len(httpQueue) > 0
    /\ httpQueue' = xQueueReceive(httpQueue).queue
    /\ workerRequest' = IF wifi THEN xQueueReceive(httpQueue).request ELSE NoRequest
    /\ workerPc' = IF wifi THEN "post" ELSE "wait"
    /\ OtherCall
    /\ UNCHANGED <<buttons, queueOk, lastWebhookTime, workerDelayStart, lastTrigger, quiet>>
    /\ UNCHANGED <<envVars, tmVars, cfgVars, uiVars, bsVars, touchVars, pfVars, thVars,
                   cxVars>>

\* a task that puts the request of a failed call back in the queue
QueueAfterPostRetry(q, request, ok) ==
    IF ~ok /\ Len(q) < HTTP_QUEUE_SIZE THEN Append(q, request) ELSE q

\* httpQueue after http.POST() came back: the result is only logged
QueueAfterPost(q, request, ok) == q

\* httpWorkerTask: http.POST() comes back, with a status (ok) or with an
\* error; either is only logged
WorkerPost(ok) ==
    /\ workerPc = "post"
    /\ workerRequest' = NoRequest
    /\ workerPc' = "delay"
    /\ workerDelayStart' = now
    /\ httpQueue' = QueueAfterPost(httpQueue, workerRequest, ok)
    /\ lastCall' = "post"
    /\ lastRet' = ok
    /\ lastWrote' = FALSE
    /\ updRun' = 0
    /\ UNCHANGED <<buttons, queueOk, lastWebhookTime, lastTrigger, quiet>>
    /\ UNCHANGED <<envVars, tmVars, cfgVars, uiVars, bsVars, touchVars, pfVars, thVars,
                   cxVars>>

\* httpWorkerTask: vTaskDelay(pdMS_TO_TICKS(50)) is over
WorkerDelayDone ==
    /\ workerPc = "delay"
    /\ Ge32(Sub32(now, workerDelayStart), U32(WORKER_DELAY_MS))
    /\ workerPc' = "wait"
    /\ workerDelayStart' = U32(0)
    /\ UNCHANGED workerRequest
    /\ OtherCall
    /\ UNCHANGED <<buttons, httpQueue, queueOk, lastWebhookTime, lastTrigger, quiet>>
    /\ UNCHANGED <<envVars, tmVars, cfgVars, uiVars, bsVars, touchVars, pfVars, thVars,
                   cxVars>>

\* the tick counter runs on while the task sleeps in vTaskDelay()
WorkerDelayElapses ==
    /\ workerPc = "delay"
    /\ ~Ge32(Sub32(now, workerDelayStart), U32(WORKER_DELAY_MS))
    /\ now' = Add32(now, U32(WORKER_DELAY_MS))
    /\ quiet' = QuietAfter(quiet, U32(WORKER_DELAY_MS))
    /\ sinceSync' = SinceSyncAfter(sinceSync, U32(WORKER_DELAY_MS))
    /\ OtherCall
    /\ UNCHANGED <<started, advances, wifi, rtcYear, wall>>
    /\ UNCHANGED <<tmVars, cfgVars, uiVars, bsVars, touchVars, pfVars, thVars>>
    /\ UNCHANGED <<hVars, probeVars, pnVars, wrVars>>
    /\ UNCHANGED <<buttons, httpQueue, queueOk, lastWebhookTime, workerPc, workerRequest,
                   workerDelayStart, lastTrigger>>

\* onSceneActivated() of a built-in scene enters the loop of setAllButtons()
SceneLoopBegin(sceneId) ==
    /\ started
    /\ sceneLoop = NoLoop
    /\ SceneNames[sceneId] \in {"All Off", "All On"}
    /\ sceneLoop' = Loop(sceneId, SceneNames[sceneId] = "All On", 1)
    /\ OtherCall
    /\ UNCHANGED <<envVars, tmVars, cfgVars, uiVars, bsVars, touchVars, dcVars, pfVars, thVars>>
    /\ UNCHANGED <<hVars, probeVars, pnVars, lastWrite, sinceSync>>

\* setAllButtons(): one turn of the loop, setButtonState(btn.id, state)
SceneLoopWrite ==
    /\ sceneLoop # NoLoop
    /\ sceneLoop.next \in DOMAIN buttons
    /\ buttons' = setButtonState(buttons, sceneLoop.next, sceneLoop.state)
    /\ lastWrite' = Written(lastWrite, sceneLoop.next, sceneLoop.state)
    /\ sceneLoop' = [sceneLoop EXCEPT !.next = @ + 1]
    /\ OtherCall
    /\ UNCHANGED <<httpQueue, queueOk, lastWebhookTime, workerPc, workerRequest,
                   workerDelayStart, lastTrigger, quiet>>
    /\ UNCHANGED <<envVars, tmVars, cfgVars, uiVars, bsVars, touchVars, pfVars, thVars>>
    /\ UNCHANGED <<hVars, probeVars, pnVars, sinceSync>>

\* onSceneActivated(): the loop of setAllButtons() is over, sendSceneWebhook()
SceneLoopEnd ==
    /\ sceneLoop # NoLoop
    /\ sceneLoop.next \notin DOMAIN buttons
    /\ sceneLoop' = NoLoop
    /\ Trigger(Request("scene", sceneLoop.scene, FALSE), buttons)
    /\ UNCHANGED lastWrite

\* one element of the "buttons" array of a state update
StateEntry(id, st) == [id |-> id, state |-> st]

\* an element that carries a fan's speed level
FanEntry(id, st, speedLevel) == [id |-> id, state |-> st, speedLevel |-> speedLevel]

\* a state update, without and with a display brightness
StateDoc(entries) == [valid |-> TRUE, buttons |-> entries]

StateDocWithBrightness(entries, b) == [valid |-> TRUE, buttons |-> entries, brightness |-> b]

\* an update that stores the element's "state" whether or not it carries a
\* speed level
EntryStateAsSent(e) == e.state

\* the state that processServerStateUpdate() stores for an element
EntryState(e) == IF "speedLevel" \in DOMAIN e THEN e.speedLevel > 0 ELSE e.state

\* processServerStateUpdate(): for (JsonObject btn : buttons) setButtonState(id, ...)
RECURSIVE StoreEntries(_, _)
StoreEntries(bs, entries) ==
    IF entries = << >> THEN bs
    ELSE StoreEntries(setButtonState(bs, Head(entries).id, EntryState(Head(entries))),
                      Tail(entries))

\* the record of writes after the elements of a state update
RECURSIVE WrittenEntries(_, _)
WrittenEntries(w, entries) ==
    IF entries = << >> THEN w
    ELSE WrittenEntries(Written(w, Head(entries).id, EntryState(Head(entries))),
                        Tail(entries))

\* an update whose first written element calls the button callback as a
\* press of the card does
updateButtonStateWithCallback(q, ok, last, entries, millis, wifiUp) ==
    IF entries = << >> THEN [queue |-> q, lastWebhookTime |-> last]
    ELSE sendWebhook(q, ok, last,
                     Request("button", Head(entries).id, EntryState(Head(entries))),
                     millis, wifiUp)

\* uiManager.updateButtonState() / setFanSpeed(): the card and config.buttons
\* are written, buttonCallback is not called, so that the queue and the
\* time of the last webhook stay as they are
updateButtonState(q, ok, last, entries, millis, wifiUp) ==
    [queue |-> q, lastWebhookTime |-> last]

\* void DeviceController::processServerStateUpdate(const String& json), called
\* by POST /api/state and POST /api/state/buttons in the web server's task
ServerStateUpdate(doc) ==
    /\ started
    /\ buttons' = IF doc.valid THEN StoreEntries(buttons, doc.buttons) ELSE buttons
    /\ lastWrite' = IF doc.valid THEN WrittenEntries(lastWrite, doc.buttons) ELSE lastWrite
    /\ IF doc.valid /\ "brightness" \in DOMAIN doc
       THEN /\ currentBrightness' = doc.brightness
            /\ displayBrightness' = doc.brightness
       ELSE UNCHANGED <<currentBrightness, displayBrightness>>
    /\ lastCall' = "serverState"
    /\ lastRet' = FALSE
    /\ lastWrote' = FALSE
    /\ updRun' = 0
    /\ UNCHANGED <<schedule, needsRebuild>>
    /\ LET r == updateButtonState(httpQueue, queueOk, lastWebhookTime,
                                  IF doc.valid THEN doc.buttons ELSE << >>, now, wifi)
       IN  /\ httpQueue' = r.queue
           /\ lastWebhookTime' = r.lastWebhookTime
    /\ UNCHANGED <<queueOk, workerPc, workerRequest, workerDelayStart, lastTrigger, quiet>>
    /\ UNCHANGED <<envVars, tmVars, bsVars, touchVars, pfVars, thVars>>
    /\ UNCHANGED <<hVars, probeVars, pnVars, sceneLoop, sinceSync>>

\* now - lastServerCheck >= SERVER_CHECK_INTERVAL
ProbeDue == Ge32(Sub32(now, lastServerCheck), U32(SERVER_CHECK_INTERVAL))

\* void DeviceController::update(): when a probe is due, GET /api/ping
\* answers 200 (reachable) or does not
DeviceControllerUpdate(reachable) ==
    /\ started
    /\ IF ProbeDue
       THEN /\ lastServerCheck' = now
            /\ serverConnected' = IF wifi THEN reachable ELSE FALSE
       ELSE UNCHANGED <<serverConnected, lastServerCheck>>
    /\ lastCall' = IF ProbeDue THEN "probe" ELSE "other"
    /\ lastRet' = FALSE
    /\ lastWrote' = FALSE
    /\ updRun' = 0
    /\ UNCHANGED <<envVars, tmVars, cfgVars, uiVars, bsVars, touchVars, dcVars, pfVars, thVars>>
    /\ UNCHANGED <<hVars, pnVars, wrVars, sinceSync>>

\* void loop(): uiManager.update(), deviceController.update(),
\* timeManager.update(), brightnessScheduler.update(). The theme scheduler
\* is not among the calls. lv_timer_handler(), which reads the touch panel
\* and delivers clicks, is in the actions of the touch input and the dialog.
LoopIteration(reachable, elapsed) ==
    /\ started
    /\ LET u == UIManager_update(Ui, displayBrightness, displayTheme, elapsed)
       IN  /\ StoreUi(u)
           /\ IF ProbeDue
              THEN /\ lastServerCheck' = now
                   /\ serverConnected' = IF wifi THEN reachable ELSE FALSE
              ELSE UNCHANGED <<serverConnected, lastServerCheck>>
           /\ IF SyncDue
              THEN attemptSync
              ELSE UNCHANGED <<synced, lastSyncAttempt, lastSuccessfulSync, syncOutcome>>
           /\ sinceSync' = IF SyncDue /\ wifi THEN 0 ELSE sinceSync
           /\ LET o == update(Scheduler, schedule, displayBrightness, synced',
                              getCurrentHour, getCurrentMinute, now)
              IN  /\ StoreScheduler(o)
                  /\ currentBrightness' = BrightnessAfter(o, u.brightness)
                  /\ NoteCall("loop", o)
    /\ UNCHANGED <<currentTimezone, envVars, cfgVars, touchVars, dcVars, pfVars>>
    /\ UNCHANGED <<tcVars, currentAppliedTheme, wasNightTime, initialized, crossed, posted>>
    /\ UNCHANGED <<hVars, reportingUrl, serverChangePending, newReportingUrl, wrVars>>

\* ------------------------------------------------------------------------
\* Period resolution on its own: sorted period lists and times of day
\* ------------------------------------------------------------------------

PeriodStarts == {Time(0, 0), Time(6, 0), Time(6, 30), Time(22, 0), Time(23, 59)}

QueryMinutes == {0, 29, 30, 59}

StartOf(p) == p.startHour * 60 + p.startMinute

IsSorted(periods) ==
    \A i \in 1..(Len(periods) - 1) : StartOf(periods[i]) <= StartOf(periods[i + 1])

SortedPeriodLists ==
    { ps \in UNION { [1..n -> {Period(t.h, t.m, 50) : t \in PeriodStarts}] :
                     n \in 1..MaxPeriods } : IsSorted(ps) }

InitPeriod ==
    /\ Init
    /\ dayNight = DefaultDayNight
    /\ wifi = FALSE
    /\ wall = Time(7, 0)
    /\ schedule = ScheduleConfig(FALSE, DayNightPeriods, 80, 1, "")
    /\ displayBrightness = 80

\* a period list and a time of day are handed to both implementations
AskPeriod(ps, h, m) ==
    /\ ~queryResult.done
    /\ query' = [periods |-> ps, hour |-> h, minute |-> m]
    /\ queryResult' = [done |-> TRUE,
                       scheduler |-> findActivePeriod(ps, h, m),
                       info |-> infoActivePeriod(ps, h, m)]
    /\ UNCHANGED <<envVars, tmVars, cfgVars, uiVars, bsVars, callVars, touchVars, dcVars,
                   thVars, cxVars>>

NextPeriod ==
    \E ps \in SortedPeriodLists, h \in 0..23, m \in QueryMinutes : AskPeriod(ps, h, m)

SpecPeriod == InitPeriod /\ [][NextPeriod]_vars

\* C1: for a sorted period list and a time of day, the resolved period is
\* the last one that starts at or before that time, and the last of the
\* list when the time precedes every start; the scheduler and the /api/info
\* handler both resolve it so.
StartedBy(periods, t) == { i \in 1..Len(periods) : StartOf(periods[i]) <= t }

MaxOf(S) == CHOOSE x \in S : \A y \in S : y <= x

ExpectedPeriod(periods, h, m) ==
    IF StartedBy(periods, h * 60 + m) = {} THEN Len(periods) - 1
    ELSE MaxOf(StartedBy(periods, h * 60 + m)) - 1

PeriodResolution ==
    queryResult.done =>
        /\ queryResult.scheduler = ExpectedPeriod(query.periods, query.hour, query.minute)
        /\ queryResult.info = ExpectedPeriod(query.periods, query.hour, query.minute)

\* the wrap: 05:00 against periods starting 06:00 and 22:00 gives the second
PeriodResolutionWitness ==
    /\ queryResult.done
    /\ query = [periods |-> <<Period(6, 0, 50), Period(22, 0, 50)>>, hour |-> 5, minute |-> 0]
    /\ queryResult.scheduler = 1

\* ------------------------------------------------------------------------
\* The clock service on its own
\* ------------------------------------------------------------------------

ClockDeltas == {U32(30000), U32(SYNC_RETRY_MS), U32(SYNC_INTERVAL_MS), LongIdle}

InitClock ==
    /\ Init
    /\ dayNight = DefaultDayNight
    /\ wall = Time(7, 0)
    /\ schedule = ScheduleConfig(FALSE, DayNightPeriods, 80, 1, "")
    /\ displayBrightness = 80

ClockTimes == {Time(7, 0), Time(23, 30)}

NextClock ==
    \/ Setup(InvalidDoc, TRUE, wall)
    \/ \E d \in ClockDeltas : Advance(d)
    \/ WifiChange
    \/ \E t \in ClockTimes : SntpSetsClock(t)
    \/ TimeManagerUpdate
    \/ ForceSync
    \/ \E tz \in Timezones \cup {""}, t \in ClockTimes : SetTimezone(tz, t)
    \/ \E y \in Years, t \in ClockTimes : SetTimeFromServer(y, t)

SpecClock == InitClock /\ [][NextClock]_vars

\* C2: once the synced flag is true no step sets it back to false.
SyncedNeverReverts == [][synced => synced']_vars

\* a resync attempt found an implausible time while the flag was set
SyncedNeverRevertsWitness == synced /\ syncOutcome = "pending"

\* update() has made a sync attempt
PeriodicAttemptStep == lastCall' = "sync"

\* C29: a sync attempt of the periodic update comes at least 60 s after the
\* periodic attempt before it while the clock is unsynced, and at least 1 h
\* after it once the clock is synced, also when the attempt before it failed.
PeriodicAttemptsSpaced ==
    [][PeriodicAttemptStep
         => sinceSync >= IF synced THEN SYNC_INTERVAL_MS ELSE SYNC_RETRY_MS]_vars

\* update() or forceSync() has made a sync attempt
AttemptStep == lastCall' \in {"sync", "forceSync"}

\* C30: a sync attempt that finds no time or a year below 2024 leaves the
\* synced flag and lastSuccessfulSync as they were and ends as pending; an
\* attempt sets the flag only when it finds a plausible time, and then it
\* records the time of the attempt as the last successful sync.
ImplausibleTimeStaysPending ==
    [][AttemptStep
         => IF checkSyncStatus
            THEN /\ synced'
                 /\ lastSuccessfulSync' = now
                 /\ syncOutcome' = "ok"
            ELSE /\ synced' = synced
                 /\ lastSuccessfulSync' = lastSuccessfulSync
                 /\ syncOutcome' = "pending"]_vars

\* an attempt of update() has found no time on an unsynced clock
ImplausibleTimeWitness ==
    /\ lastCall = "sync"
    /\ syncOutcome = "pending"
    /\ ~synced
    /\ ~LocalTimeValid
    /\ lastSyncAttempt = now
    /\ lastSuccessfulSync # now

\* ------------------------------------------------------------------------
\* The brightness scheduler with touch wake
\* ------------------------------------------------------------------------

BrightDeltas == {U32(250), LongIdle}

\* the schedules, documents, times of day and clock years this part runs over
BrightSchedules ==
    { ScheduleConfig(FALSE, DayNightPeriods, 80, 1, ""),
      ScheduleConfig(TRUE, DayNightPeriods, 80, 1, ""),
      ScheduleConfig(TRUE, DimPeriods, 5, 1, "") }

BrightDocs == { ConfigDoc(sch, 80) : sch \in BrightSchedules } \cup {InvalidDoc}

BrightTimes == {Time(7, 0), Time(23, 30)}

BrightYears == {2025}

InitBright ==
    /\ Init
    /\ dayNight = DefaultDayNight
    /\ wifi
    /\ wall = Time(7, 0)
    /\ schedule \in BrightSchedules
    /\ displayBrightness = 80

NextBright ==
    \/ \E doc \in BrightDocs : Setup(doc, TRUE, wall)
    \/ \E d \in BrightDeltas : Advance(d)
    \/ \E t \in BrightTimes : WallClockMoves(t)
    \/ \E y \in BrightYears, t \in BrightTimes : SetTimeFromServer(y, t)
    \/ BrightnessUpdate
    \/ FingerDown
    \/ FingerUp
    \/ TouchpadRead
    \/ \E b \in ManualBrightness : SetBrightnessApi(b)

SpecBright == InitBright /\ [][NextBright]_vars

\* C6: a second update() right after a first one, with the same clock
\* reading, tick counter and configuration, returns "no change" and writes
\* no brightness.
TickIdempotent == updRun = 2 => (~lastRet /\ ~lastWrote)

TickIdempotentWitness ==
    /\ updRun = 2
    /\ schedule.enabled
    /\ synced
    /\ state = "AWAKE"
    /\ currentBrightness = schedule.touchBrightness

\* the wake a touch made is less than the grace period old
WithinGrace == woke /\ Lt32(Sub32(now, wokeAt), U32(WAKE_GRACE_PERIOD_MS))

\* a read with the finger down has just run
TouchStep == lastCall' = "touch"

\* C7: with the schedule enabled and the display at or below 5%, a touch is
\* consumed, makes the scheduler Awake and applies the wake brightness, and
\* shouldBlockButtons() is true throughout the following 500 ms.
TouchWakeBlocksForGrace ==
    /\ [](schedule.enabled /\ WithinGrace
            => shouldBlockButtons(schedule, wakeGraceEndTime, currentBrightness, now))
    /\ [][TouchStep /\ schedule.enabled /\ IsDim(currentBrightness)
            => /\ lastRet'
               /\ state' = "AWAKE"
               /\ currentBrightness' = schedule.touchBrightness]_vars

\* C8: from the read at which a touch wakes the display until the finger
\* is lifted, no read reports PRESSED.
WakeTouchNeverPressed == (wakeContact /\ isTouched) => indevState = "RELEASED"

\* what C9 says a touch does to an Awake scheduler
OnlyRestartsWake ==
    /\ wakeStartTime' = now
    /\ ~lastRet'
    /\ state' = state
    /\ currentBrightness' = currentBrightness
    /\ wakeGraceEndTime' = wakeGraceEndTime

\* C9 as claimed: whenever the schedule is enabled and the scheduler is
\* Awake, a touch only restarts the wake timer and is not consumed, for every
\* actual brightness.
AwakeTouchOnlyRestarts ==
    [][TouchStep /\ schedule.enabled /\ state = "AWAKE" => OnlyRestartsWake]_vars

\* C9 amended: whenever the schedule is enabled, the scheduler is Awake and
\* the actual brightness is above 5%, a touch only restarts the wake timer
\* and is not consumed.
AwakeBrightTouchOnlyRestarts ==
    [][TouchStep /\ schedule.enabled /\ state = "AWAKE" /\ ~IsDim(currentBrightness)
         => OnlyRestartsWake]_vars

\* a touch has restarted the timer of a wake made earlier
AwakeBrightTouchWitness ==
    /\ lastCall = "touch"
    /\ ~lastRet
    /\ state = "AWAKE"
    /\ wakeStartTime = now
    /\ wakeStartTime # wokeAt
    /\ ~IsDim(currentBrightness)

\* C10: shouldBlockButtons() is true exactly when the time is inside the
\* post-wake grace window or the actual brightness is at or below 5%.
BlocksExactlyWhenGraceOrDim ==
    started =>
        (shouldBlockButtons(schedule, wakeGraceEndTime, currentBrightness, now)
            <=> (WithinGrace \/ IsDim(currentBrightness)))

\* C27: an elapsed-time decision comes out as the time truly elapsed since
\* its recorded start says, also when the 32-bit tick counter wraps between
\* the start and the check; for the post-wake grace window: the comparison
\* with wakeGraceEndTime says "inside" exactly when less than 500 ms have
\* passed since the wake.
GraceWindowSurvivesWrap ==
    (started /\ woke) => (InGrace(now, wakeGraceEndTime) <=> WithinGrace)

\* an update() of the brightness scheduler has just run
TickStep == lastCall' = "update"

\* the schedule is enabled and has at least one period
Scheduling == schedule.enabled /\ Len(schedule.periods) > 0

\* now - wakeStartTime >= displayTimeout, in ms
WakeElapsed == Ge32(Sub32(now, wakeStartTime), U32(schedule.displayTimeout * 1000))

\* the brightness of the period in force at the clock's reading
ActivePeriodBrightness ==
    schedule.periods[findActivePeriod(schedule.periods, getCurrentHour,
                                      getCurrentMinute) + 1].brightness

\* C11: with the schedule enabled, a period configured and the clock synced,
\* a tick in Awake at or after the display timeout returns the scheduler to
\* Scheduled, writes the active period's brightness in that tick and reports
\* a change; a tick before the timeout leaves it Awake.
WakeTimeoutReturnsToScheduled ==
    [][TickStep /\ Scheduling /\ synced /\ state = "AWAKE"
         => IF WakeElapsed
            THEN /\ state' = "SCHEDULED"
                 /\ lastRet'
                 /\ lastWrote'
                 /\ currentBrightness' = ActivePeriodBrightness
            ELSE state' = "AWAKE"]_vars

\* a wake has ended exactly at the timeout and the period's brightness is
\* back
WakeTimeoutWitness ==
    /\ lastCall = "update"
    /\ lastRet
    /\ lastWrote
    /\ Scheduling
    /\ synced
    /\ woke
    /\ state = "SCHEDULED"
    /\ Sub32(now, wakeStartTime) = U32(schedule.displayTimeout * 1000)
    /\ currentBrightness = ActivePeriodBrightness
    /\ currentBrightness # schedule.touchBrightness

\* C12: with the schedule enabled, a period configured and the clock not
\* synced, a tick writes the fallback brightness 50 and reports a change
\* only when 50 is not the value applied last; the ticks that follow it
\* directly write nothing and report no change.
FallbackOnlyOnEntry ==
    [][TickStep /\ Scheduling /\ ~synced
         => /\ lastRet' = (lastAppliedBrightness # FALLBACK_BRIGHTNESS)
            /\ lastWrote' = lastRet'
            /\ lastWrote' => currentBrightness' = FALLBACK_BRIGHTNESS
            /\ ~lastWrote' => currentBrightness' = currentBrightness
            /\ lastAppliedBrightness' = FALLBACK_BRIGHTNESS
            /\ updRun >= 1 => ~lastRet']_vars

\* a tick that changed nothing has followed a tick in fallback
FallbackOnlyOnEntryWitness ==
    /\ updRun = 2
    /\ Scheduling
    /\ ~synced
    /\ ~lastRet
    /\ ~lastWrote
    /\ lastAppliedBrightness = FALLBACK_BRIGHTNESS
    /\ currentBrightness = FALLBACK_BRIGHTNESS

\* C13: while the scheduler is Awake and the wake has not timed out, every
\* tick leaves the applied brightness at touchBrightness, also when the
\* clock is not synced.
AwakeKeepsTouchBrightness ==
    [][TickStep /\ Scheduling /\ state = "AWAKE" /\ ~WakeElapsed
            /\ currentBrightness = schedule.touchBrightness
         => /\ currentBrightness' = schedule.touchBrightness
            /\ state' = "AWAKE"]_vars

\* ------------------------------------------------------------------------
\* Time injected by the server
\* ------------------------------------------------------------------------

InjectSchedules ==
    { ScheduleConfig(TRUE, DayNightPeriods, 80, 1, ""),
      ScheduleConfig(TRUE, DimPeriods, 5, 1, "") }

InjectTimes == {Time(7, 0), Time(23, 30)}

InitInject ==
    /\ Init
    /\ dayNight = DefaultDayNight
    /\ wall = Time(7, 0)
    /\ schedule \in InjectSchedules
    /\ displayBrightness = 80

NextInject ==
    \/ Setup(InvalidDoc, TRUE, wall)
    \/ Advance(U32(SYNC_RETRY_MS))
    \/ WifiChange
    \/ \E y \in Years, t \in InjectTimes : SetTimeFromServer(y, t)
    \/ TimeManagerUpdate
    \/ BrightnessUpdate

SpecInject == InitInject /\ [][NextInject]_vars

InjectStep == lastCall' = "setTime"

\* C28: setTimeFromServer() leaves the clock synced and lastSuccessfulSync
\* at the present tick count, whatever the flag, the clock and WiFi were
\* before; the scheduler tick that follows it in Scheduled applies the
\* brightness of the active period.
InjectedTimeIsSynced ==
    [][/\ InjectStep => synced' /\ lastSuccessfulSync' = now
       /\ (TickStep /\ lastCall = "setTime" /\ Scheduling /\ state = "SCHEDULED")
            => /\ lastAppliedBrightness' = ActivePeriodBrightness
               /\ currentBrightness' = ActivePeriodBrightness]_vars

\* with WiFi down and no sync attempt ever made, the tick after an injection
\* has replaced the fallback brightness by the period's
InjectedTimeWitness ==
    /\ lastCall = "update"
    /\ updRun = 1
    /\ ~wifi
    /\ syncOutcome \in {"none", "skipped"}
    /\ synced
    /\ lastSuccessfulSync = now
    /\ Scheduling
    /\ lastWrote
    /\ currentBrightness = ActivePeriodBrightness
    /\ currentBrightness # FALLBACK_BRIGHTNESS

\* ------------------------------------------------------------------------
\* Configuration documents at run time
\* ------------------------------------------------------------------------

\* the schedules and documents this part runs over: the schedule off, on with
\* two periods, on with none; day/night mode off or on
ConfigSchedules ==
    { ScheduleConfig(FALSE, DayNightPeriods, 80, 1, ""),
      ScheduleConfig(TRUE, DayNightPeriods, 80, 1, ""),
      ScheduleConfig(TRUE, << >>, 80, 1, "") }

ConfigDayNights == { DefaultDayNight, DayNightConfig(TRUE, "light_mode", "dark_mode", 7, 20) }

PostedDocs ==
    { ThemedDoc(sch, 80, "light_mode", dn) : sch \in ConfigSchedules, dn \in ConfigDayNights }
    \cup {InvalidDoc}
    \cup {PartialDoc(ScheduleConfig(TRUE, DayNightPeriods, 80, 1, ""))}

InitConfig ==
    /\ Init
    /\ wifi
    /\ wall = Time(7, 0)
    /\ schedule \in ConfigSchedules
    /\ displayBrightness = 80
    /\ dayNight = DefaultDayNight

NextConfig ==
    \/ \E doc \in PostedDocs : Setup(doc, TRUE, wall)
    \/ \E doc \in PostedDocs : ConfigPost(doc, wall)
    \/ \E t \in BrightTimes : WallClockMoves(t)
    \/ \E y \in BrightYears, t \in BrightTimes : SetTimeFromServer(y, t)
    \/ BrightnessUpdate
    \/ FingerDown
    \/ FingerUp
    \/ TouchpadRead
    \/ \E b \in ManualBrightness : SetBrightnessApi(b)

SpecConfig == InitConfig /\ [][NextConfig]_vars

\* a refresh() of the brightness scheduler has just run
RefreshStep == lastCall' = "refresh"

\* the period in force at the time of day after the step
ActivePeriodAfter ==
    findActivePeriod(schedule'.periods, HourOf(wall'), MinuteOf(wall'))

\* C14: after refresh() with the schedule enabled the state is Scheduled; with
\* the clock synced and a period configured, the index of the period active
\* at the current time is cached and its brightness applied and cached; with
\* the clock not synced, brightness 50 is applied and no period is cached,
\* and every tick with the clock synced caches the active period.
RefreshRecomputes ==
    /\ [][RefreshStep /\ schedule'.enabled
            => /\ state' = "SCHEDULED"
               /\ (synced /\ Len(schedule'.periods) > 0)
                    => /\ currentPeriodIndex' = ActivePeriodAfter
                       /\ currentBrightness' =
                              schedule'.periods[ActivePeriodAfter + 1].brightness
                       /\ lastAppliedBrightness' = currentBrightness'
                       /\ currentScheduledBrightness' = currentBrightness'
               /\ (synced /\ Len(schedule'.periods) = 0)
                    => /\ currentPeriodIndex' = -1
                       /\ lastAppliedBrightness' = INVALID_BRIGHTNESS
               /\ ~synced
                    => /\ currentPeriodIndex' = -1
                       /\ currentBrightness' = FALLBACK_BRIGHTNESS
                       /\ lastAppliedBrightness' = FALLBACK_BRIGHTNESS]_vars
    /\ [][TickStep /\ Scheduling /\ synced
            => /\ currentPeriodIndex' = ActivePeriodAfter
               /\ currentScheduledBrightness' =
                      schedule.periods[ActivePeriodAfter + 1].brightness]_vars

\* a refresh() with the clock synced has ended a wake and applied the
\* period's brightness
RefreshRecomputesWitness ==
    /\ lastCall = "refresh"
    /\ Scheduling
    /\ synced
    /\ woke
    /\ state = "SCHEDULED"
    /\ currentPeriodIndex >= 0
    /\ currentBrightness = ActivePeriodBrightness
    /\ lastAppliedBrightness = currentBrightness

\* what C15 says of a call that does nothing
SchedulerUntouched ==
    /\ ~lastRet'
    /\ ~lastWrote'
    /\ UNCHANGED <<bsVars, currentBrightness>>

\* C15: with the schedule disabled a tick changes nothing, a touch is not
\* consumed and changes neither state nor brightness, and
\* shouldBlockButtons() is false; with no period configured a tick changes
\* nothing.
DisabledSchedulerIsInert ==
    /\ [](~schedule.enabled
            => ~shouldBlockButtons(schedule, wakeGraceEndTime, currentBrightness, now))
    /\ [][TickStep /\ (~schedule.enabled \/ Len(schedule.periods) = 0)
            => SchedulerUntouched]_vars
    /\ [][TouchStep /\ ~schedule.enabled
            => SchedulerUntouched /\ indevState' = "PRESSED"]_vars

\* a touch on a dark display went through to the widgets with the schedule
\* disabled
DisabledSchedulerWitness ==
    /\ lastCall = "touch"
    /\ ~schedule.enabled
    /\ IsDim(currentBrightness)
    /\ isTouched
    /\ indevState = "PRESSED"
    /\ state = "SCHEDULED"

\* a tick ran with the schedule enabled and no period configured
NoPeriodsTickWitness ==
    /\ lastCall = "update"
    /\ schedule.enabled
    /\ Len(schedule.periods) = 0
    /\ synced

\* a configuration document that does not parse has just been posted
RejectedStep == lastCall' = "configRejected"

\* C20: a configuration document that does not parse is answered with a
\* failure and leaves the configuration (buttons, theme, day/night settings,
\* schedule, display brightness) and the runtime state of both schedulers,
\* the theme engine and the display as they were; no refresh and no rebuild
\* request follows.
InvalidConfigChangesNothing ==
    [][RejectedStep
         => /\ ~lastRet'
            /\ UNCHANGED <<cfgVars, tcVars, buttons>>
            /\ UNCHANGED <<bsVars, tsVars, uiVars>>
            /\ UNCHANGED <<currentTimezone, wall>>]_vars

\* an unparsable document arrived while a fetched configuration was in force,
\* the display awake and no rebuild pending
InvalidConfigWitness ==
    /\ lastCall = "configRejected"
    /\ displayTheme = "light_mode"
    /\ dayNight.enabled
    /\ schedule.enabled
    /\ state = "AWAKE"
    /\ ~needsRebuild

\* a configuration document that parses has just been applied
AppliedStep == started /\ lastCall' = "refresh"

\* C21: a document that parses but lacks sections or fields leaves every
\* configuration field at the value it had before.
PartialConfigChangesNothing ==
    [][AppliedStep /\ posted' = "partial"
         => UNCHANGED <<displayBrightness, displayTheme, dayNight, buttons>>]_vars

\* ------------------------------------------------------------------------
\* Day or night
\* ------------------------------------------------------------------------

InitDay ==
    /\ Init
    /\ dayNight = DefaultDayNight
    /\ wifi = FALSE
    /\ wall = Time(7, 0)
    /\ schedule = ScheduleConfig(FALSE, DayNightPeriods, 80, 1, "")
    /\ displayBrightness = 80

\* an hour is handed to isDayTime() under the given start hours
AskDay(hour, dayStart, nightStart) ==
    /\ ~queryResult.done
    /\ query' = [hour |-> hour, dayStartHour |-> dayStart, nightStartHour |-> nightStart]
    /\ queryResult' =
          [done |-> TRUE,
           day |-> isDayTime(hour, DayNightConfig(TRUE, "light_mode", "dark_mode",
                                                  dayStart, nightStart))]
    /\ UNCHANGED <<envVars, tmVars, cfgVars, uiVars, bsVars, callVars, touchVars, dcVars,
                   thVars, cxVars>>

NextDay == \E hour \in 0..23, dayStart \in 0..23, nightStart \in 0..23 :
               AskDay(hour, dayStart, nightStart)

SpecDay == InitDay /\ [][NextDay]_vars

\* the hours C16 counts as day
ClaimedDay(hour, dayStart, nightStart) ==
    \/ dayStart < nightStart /\ dayStart <= hour /\ hour < nightStart
    \/ dayStart > nightStart /\ (hour >= dayStart \/ hour < nightStart)
    \/ dayStart = nightStart

\* C16: for every hour and every pair of start hours in 0..23, isDayTime()
\* is true exactly when the day starts before the night and the hour lies in
\* [dayStart, nightStart), or the day starts after the night and the hour is
\* at or after dayStart or before nightStart, or both start hours are equal;
\* with dayStart 20 and nightStart 7, hours 23 and 3 are day and hour 10 is
\* night.
DayTimeRanges ==
    queryResult.done =>
        /\ queryResult.day = ClaimedDay(query.hour, query.dayStartHour, query.nightStartHour)
        /\ (query.dayStartHour = 20 /\ query.nightStartHour = 7)
             => /\ query.hour \in {23, 3} => queryResult.day
                /\ query.hour = 10 => ~queryResult.day

\* hour 3 was found to be day for a day that starts at 20 and ends at 7
DayTimeRangesWitness ==
    /\ queryResult.done
    /\ query.dayStartHour = 20
    /\ query.nightStartHour = 7
    /\ query.hour = 3
    /\ queryResult.day

\* ------------------------------------------------------------------------
\* The theme scheduler
\* ------------------------------------------------------------------------

\* hours on both sides of the boundaries at 7 and 20
ThemeTimes == {Time(6, 0), Time(7, 0), Time(8, 0), Time(20, 0)}

ThemeDocs ==
    { ThemedDoc(ScheduleConfig(FALSE, DayNightPeriods, 80, 1, ""), 80, "dark_mode", dn) :
        dn \in DayNightConfigs }
    \cup {InvalidDoc}

InitTheme ==
    /\ Init
    /\ wifi
    /\ wall \in {Time(7, 0), Time(23, 30)}
    /\ schedule = ScheduleConfig(FALSE, DayNightPeriods, 80, 1, "")
    /\ displayBrightness = 80

NextTheme ==
    \/ \E doc \in ThemeDocs : Setup(doc, TRUE, wall)
    \/ \E doc \in ThemeDocs : ConfigPost(doc, wall)
    \/ \E t \in ThemeTimes : WallClockMoves(t)
    \/ \E y \in BrightYears, t \in ThemeTimes : SetTimeFromServer(y, t)
    \/ ThemeUpdate

SpecTheme == InitTheme /\ [][NextTheme]_vars

\* an update() of the theme scheduler has just run
ThemeTickStep == lastCall' = "themeUpdate"

\* a refresh() of the theme scheduler has just run
ThemeRefreshStep == started /\ lastCall' = "refresh"

\* it is night at the clock's reading before the step, after the step
NightNow == ~isDayTime(getCurrentHour, dayNight)
NightAfter == ~isDayTime(HourOf(wall'), dayNight')

\* the theme configured for the half of the day the clock shows
ThemeNow == IF NightNow THEN dayNight.nightTheme ELSE dayNight.dayTheme
ThemeAfter == IF NightAfter THEN dayNight'.nightTheme ELSE dayNight'.dayTheme

\* two distinct themes the theme engine knows
TwoValidThemes ==
    /\ dayNight.dayTheme \in KnownThemes
    /\ dayNight.nightTheme \in KnownThemes
    /\ dayNight.dayTheme # dayNight.nightTheme

\* the tick sets no theme, requests no rebuild and leaves the scheduler alone
ThemeTickIdle ==
    /\ ~lastRet'
    /\ ~lastWrote'
    /\ UNCHANGED <<tsVars, needsRebuild>>

\* C17: with day/night mode enabled, the clock synced and two distinct valid
\* themes, a tick that finds the day/night status changed since the previous
\* evaluation sets the theme of the new half of the day, requests a rebuild
\* and records the status; a tick that finds the status unchanged does
\* nothing.
OneSwitchPerCrossing ==
    [][ThemeTickStep /\ dayNight.enabled /\ synced /\ TwoValidThemes /\ initialized
         => IF NightNow # wasNightTime
            THEN /\ lastRet'
                 /\ lastWrote'
                 /\ currentTheme' = ThemeNow
                 /\ currentAppliedTheme' = ThemeNow
                 /\ needsRebuild'
                 /\ wasNightTime' = NightNow
                 /\ initialized'
            ELSE ThemeTickIdle]_vars

\* the tick at 7 o'clock has switched from the night theme to the day theme
OneSwitchPerCrossingWitness ==
    /\ lastCall = "themeUpdate"
    /\ crossed
    /\ lastWrote
    /\ dayNight.enabled
    /\ synced
    /\ TwoValidThemes
    /\ getCurrentHour = 7
    /\ ~wasNightTime
    /\ currentTheme = dayNight.dayTheme
    /\ currentAppliedTheme = dayNight.dayTheme

\* C18: a tick that finds a crossing, or is the first evaluation, while the
\* target theme's name equals the applied theme's name sets no theme and
\* requests no rebuild, and records the day/night status; the ticks after it
\* in the same half of the day do nothing.
SameThemeNoRebuild ==
    /\ [][ThemeTickStep /\ dayNight.enabled /\ synced
              /\ ~(initialized /\ NightNow = wasNightTime)
              /\ ThemeNow = currentAppliedTheme
            => /\ ~lastWrote'
               /\ UNCHANGED <<currentTheme, currentAppliedTheme, needsRebuild>>
               /\ wasNightTime' = NightNow
               /\ initialized']_vars
    /\ [][ThemeTickStep /\ dayNight.enabled /\ synced
              /\ initialized /\ NightNow = wasNightTime
            => ThemeTickIdle]_vars

\* a tick found the night begun with the theme of the night already applied
SameThemeNoRebuildWitness ==
    /\ lastCall = "themeUpdate"
    /\ crossed
    /\ ~lastWrote
    /\ dayNight.enabled
    /\ synced
    /\ initialized
    /\ wasNightTime
    /\ NightNow
    /\ currentAppliedTheme = dayNight.nightTheme

\* what refresh() and the first evaluating tick do to set the theme t
ThemeSet(t) ==
    /\ currentTheme' = t
    /\ currentAppliedTheme' = t
    /\ needsRebuild'

\* C19 as claimed: after refresh() with day/night mode enabled the applied
\* theme name is reset and the theme of the current hour is set: by refresh()
\* itself when the clock is synced; otherwise the first evaluating tick with
\* the clock synced sets it.
RefreshReappliesTheme ==
    /\ [][ThemeRefreshStep /\ dayNight'.enabled
            => IF synced
               THEN ThemeSet(ThemeAfter)
               ELSE /\ currentAppliedTheme' = ""
                    /\ ~initialized']_vars
    /\ [][ThemeTickStep /\ dayNight.enabled /\ synced /\ ~initialized
            => ThemeSet(ThemeNow)]_vars

\* C19 amended: after refresh() with day/night mode enabled and the clock
\* synced, the theme of the current hour is set and a rebuild requested if the
\* theme engine knows its name, and otherwise the theme engine keeps its
\* theme and the applied theme name is empty; with the clock not synced the
\* applied theme name is empty and the first evaluating tick with the clock
\* synced sets the theme of the current hour if the theme engine knows its
\* name.
RefreshReappliesKnownTheme ==
    /\ [][ThemeRefreshStep /\ dayNight'.enabled
            => IF synced
               THEN /\ initialized'
                    /\ wasNightTime' = NightAfter
                    /\ IF ThemeAfter \in KnownThemes
                       THEN ThemeSet(ThemeAfter)
                       ELSE /\ currentTheme' = currentTheme
                            /\ currentAppliedTheme' = ""
               ELSE /\ currentAppliedTheme' = ""
                    /\ ~initialized']_vars
    /\ [][ThemeTickStep /\ dayNight.enabled /\ synced /\ ~initialized
              /\ ThemeNow \in KnownThemes
            => ThemeSet(ThemeNow)]_vars

\* a refresh() with the clock synced has set the theme of the current hour
\* again after a tick had switched themes
RefreshReappliesWitness ==
    /\ lastCall = "refresh"
    /\ started
    /\ crossed
    /\ dayNight.enabled
    /\ synced
    /\ initialized
    /\ ThemeNow \in KnownThemes
    /\ currentTheme = ThemeNow
    /\ currentAppliedTheme = ThemeNow
    /\ wasNightTime = NightNow
    /\ needsRebuild

\* ------------------------------------------------------------------------
\* The webhook pipeline
\* ------------------------------------------------------------------------

QueueDeltas == {U32(WEBHOOK_MIN_INTERVAL)}

SceneIds == {1, 2}

\* the buttons a finger presses
PressedButtons == {1, 2}

InitQueue ==
    /\ Init
    /\ dayNight = DefaultDayNight
    /\ wall = Time(7, 0)
    /\ schedule = ScheduleConfig(FALSE, DayNightPeriods, 80, 1, "")
    /\ displayBrightness = 80

NextQueue ==
    \/ \E created \in BOOLEAN : Setup(InvalidDoc, created, wall)
    \/ \E d \in QueueDeltas : Advance(d)
    \/ WifiChange
    \/ \E id \in PressedButtons : ButtonPressed(id)
    \/ \E sceneId \in SceneIds : SceneActivated(sceneId)
    \/ WorkerReceive
    \/ \E ok \in BOOLEAN : WorkerPost(ok)
    \/ WorkerDelayDone

SpecQueue == InitQueue /\ [][NextQueue]_vars

\* the producers alone, at closer range and across the wrap of the counter
RateDeltas == {U32(50), U32(WEBHOOK_MIN_INTERVAL), LongIdle}

NextRate ==
    \/ \E created \in BOOLEAN : Setup(InvalidDoc, created, wall)
    \/ \E d \in RateDeltas : Advance(d)
    \/ WifiChange
    \/ \E id \in PressedButtons : ButtonPressed(id)
    \/ \E sceneId \in SceneIds : SceneActivated(sceneId)

SpecRate == InitQueue /\ [][NextRate]_vars

\* a button or scene callback has just run
ProducerStep == lastCall' = "webhook"

\* C3: when the queue holds 3 requests, a further enqueue drops the new
\* request and leaves the 3 queued ones as they are, in their order.
OverflowDropsNewest ==
    [][ProducerStep /\ Len(httpQueue) = HTTP_QUEUE_SIZE => httpQueue' = httpQueue]_vars

OverflowDropsNewestWitness ==
    /\ lastCall = "webhook"
    /\ lastTrigger.result = "full"
    /\ Len(httpQueue) = HTTP_QUEUE_SIZE

\* C4: the producer's enqueue step can always complete, whatever the queue
\* length and whatever the worker is doing.
EnqueueNeverBlocks ==
    started => /\ \A id \in PressedButtons : ENABLED ButtonPressed(id)
               /\ \A sceneId \in SceneIds : ENABLED SceneActivated(sceneId)

EnqueueNeverBlocksWitness ==
    /\ lastCall = "webhook"
    /\ lastTrigger.result = "full"
    /\ workerPc = "post"

\* C5: of two triggers less than 100 ms apart, with the network up, room in
\* the queue and no trigger in the 100 ms before the first, the first is
\* enqueued and the second is dropped.
RateLimitOneOfTwo ==
    [][ProducerStep /\ lastTrigger.eligible /\ quiet < WEBHOOK_MIN_INTERVAL /\ wifi
          => /\ lastTrigger.result = "queued"
             /\ lastTrigger'.result = "limited"
             /\ httpQueue' = httpQueue]_vars

\* http.POST() of the worker has just come back
PostStep == lastCall' = "post"

\* a request has just left the queue
DequeueStep == Len(httpQueue') < Len(httpQueue)

\* C23: the worker holds a request exactly while its network call is in
\* progress, and while a call is in progress no further request is taken
\* from the queue, whatever the producers enqueue meanwhile.
OneCallInProgress ==
    /\ [](workerPc = "post" <=> workerRequest # NoRequest)
    /\ [][workerPc = "post" => ~DequeueStep]_vars

\* a producer has enqueued a second waiting request while a call is in
\* progress
OneCallInProgressWitness ==
    /\ workerPc = "post"
    /\ lastCall = "webhook"
    /\ lastTrigger.result = "queued"
    /\ Len(httpQueue) >= 2

\* what the worker's steps leave alone
OutsidePipeline == <<buttons, lastWebhookTime, queueOk, wifi, tmVars, cfgVars, uiVars, bsVars,
                     probeVars, pnVars>>

\* C24: the queue grows only by a producer's enqueue; a request leaves it
\* only at its head, once, handed to the idle worker, which starts its call
\* with WiFi up and discards it with WiFi down; a call ends once, whether it
\* succeeded or failed, with the request gone from the worker and the queue
\* as it was; and neither a discarded request nor a finished call changes
\* any state outside the pipeline.
NoRetryNoSideEffect ==
    [][/\ Len(httpQueue') > Len(httpQueue) => ProducerStep
       /\ DequeueStep
            => /\ httpQueue' = Tail(httpQueue)
               /\ workerPc = "wait"
               /\ IF wifi
                  THEN workerPc' = "post" /\ workerRequest' = Head(httpQueue)
                  ELSE workerPc' = "wait" /\ workerRequest' = NoRequest
               /\ UNCHANGED OutsidePipeline
       /\ (workerPc # "post" /\ workerPc' = "post") => DequeueStep
       /\ (workerPc = "post" /\ workerPc' # "post") => PostStep
       /\ PostStep
            => /\ workerPc = "post"
               /\ workerPc' = "delay"
               /\ workerRequest' = NoRequest
               /\ httpQueue' = httpQueue
               /\ UNCHANGED OutsidePipeline]_vars

\* a call has failed while another request waits in the queue
NoRetryWitness ==
    /\ lastCall = "post"
    /\ ~lastRet
    /\ workerPc = "delay"
    /\ workerRequest = NoRequest
    /\ Len(httpQueue) >= 1

\* ------------------------------------------------------------------------
\* The connectivity probe beside the webhook pipeline
\* ------------------------------------------------------------------------

NextProbe ==
    \/ Setup(InvalidDoc, TRUE, wall)
    \/ Advance(U32(SERVER_CHECK_INTERVAL))
    \/ WifiChange
    \/ ButtonPressed(1)
    \/ WorkerReceive
    \/ \E ok \in BOOLEAN : WorkerPost(ok)
    \/ WorkerDelayDone
    \/ \E reachable \in BOOLEAN : DeviceControllerUpdate(reachable)

SpecProbe == InitQueue /\ [][NextProbe]_vars

\* update() has just probed the server
ProbeStep == lastCall' = "probe"

\* C25: serverConnected changes only in a probe of update(), never when a
\* call of the worker succeeds or fails; and whatever its value, a trigger
\* outside the rate limit with WiFi up and room in the queue is enqueued,
\* and a request taken from the queue with WiFi up is posted.
FlagIndependentOfDispatch ==
    [][/\ serverConnected' # serverConnected => ProbeStep
       /\ PostStep => UNCHANGED <<serverConnected, lastServerCheck>>
       /\ (/\ ProducerStep
           /\ ~RateLimited(now, lastWebhookTime)
           /\ wifi
           /\ queueOk
           /\ Len(httpQueue) < HTTP_QUEUE_SIZE) => Len(httpQueue') = Len(httpQueue) + 1
       /\ (DequeueStep /\ wifi) => workerPc' = "post"]_vars

\* after a probe found the server unreachable, a request is being posted
\* and a producer has enqueued another
FlagIndependentWitness ==
    /\ ~serverConnected
    /\ lastServerCheck # U32(0)
    /\ wifi
    /\ workerPc = "post"
    /\ lastCall = "webhook"
    /\ lastTrigger.result = "queued"

\* a call of the worker has failed while the server counts as connected
FlagAfterFailedCallWitness ==
    /\ serverConnected
    /\ lastCall = "post"
    /\ ~lastRet

\* ------------------------------------------------------------------------
\* Writers of the button states
\* ------------------------------------------------------------------------

\* ids in state updates: the configured buttons and one that does not exist
UpdateIds == 1..(NumButtons + 1)

StateDocs ==
    { StateDoc(<<StateEntry(id, st)>>) : id \in UpdateIds, st \in BOOLEAN }
        \cup { StateDoc(<<FanEntry(1, st, speedLevel)>>) : st \in BOOLEAN, speedLevel \in {0, 2} }
        \cup { StateDoc(<<StateEntry(1, TRUE), StateEntry(2, FALSE), StateEntry(1, FALSE)>>),
               StateDocWithBrightness(<<StateEntry(2, TRUE)>>, 30),
               InvalidDoc }

NextButtons ==
    \/ Setup(InvalidDoc, TRUE, wall)
    \/ \E id \in PressedButtons : ButtonPressed(id)
    \/ \E sceneId \in SceneIds : SceneLoopBegin(sceneId)
    \/ SceneLoopWrite
    \/ SceneLoopEnd
    \/ \E doc \in StateDocs : ServerStateUpdate(doc)

SpecButtons == InitQueue /\ [][NextButtons]_vars

\* C26: the stored state of every button is the value of the last write to
\* its id, whether the write came from a press, from a state update of the
\* server or from the loop of a scene and however these interleave; a write
\* to another id leaves it as it is.
LastWriteWins == started => StatesOf(buttons) = lastWrite

\* a state update of the server has switched button 1 off while the loop of
\* "All On" stands between button 1 and button 2
LastWriteWinsWitness ==
    /\ sceneLoop # NoLoop
    /\ sceneLoop.state
    /\ sceneLoop.next = 2
    /\ lastCall = "serverState"
    /\ ~buttons[1].state
    /\ ~buttons[2].state

\* the positions at which a state update lists the button id
Listed(entries, id) == { i \in 1..Len(entries) : entries[i].id = id }

\* C32: a state update that parses leaves every existing button it lists
\* in the state it supplies for it (the last one if it lists the button more
\* than once; on exactly when speedLevel > 0 for an element with a speed
\* level), leaves the buttons it does not list as they were, adds no button,
\* and writes the brightness it carries, if any, to the display and to
\* config.display.brightness; one that does not parse changes no button and
\* no brightness. Ids and brightness are within uint8_t.
StateUpdateApplied ==
    [][\A doc \in StateDocs :
         ServerStateUpdate(doc) =>
           IF doc.valid
           THEN /\ DOMAIN buttons' = DOMAIN buttons
                /\ \A id \in DOMAIN buttons :
                     IF Listed(doc.buttons, id) = {}
                     THEN buttons'[id] = buttons[id]
                     ELSE LET e == doc.buttons[MaxOf(Listed(doc.buttons, id))]
                          IN  /\ buttons'[id].type = buttons[id].type
                              /\ buttons'[id].state =
                                   IF "speedLevel" \in DOMAIN e THEN e.speedLevel > 0
                                   ELSE e.state
                /\ IF "brightness" \in DOMAIN doc
                   THEN /\ currentBrightness' = doc.brightness
                        /\ displayBrightness' = doc.brightness
                   ELSE UNCHANGED <<currentBrightness, displayBrightness>>
           ELSE UNCHANGED <<buttons, currentBrightness, displayBrightness>>]_vars

\* a state update has switched button 2 on and set the brightness to 30,
\* button 1 is off as before
StateUpdateAppliedWitness ==
    /\ lastCall = "serverState"
    /\ buttons[2].state
    /\ ~buttons[1].state
    /\ currentBrightness = 30
    /\ displayBrightness = 30

\* processServerStateUpdate() has run
ServerStateStep == lastCall' = "serverState"

\* C39: processing a state update of the server enqueues no outbound
\* command and sends no webhook: the request queue, the time of the last
\* webhook (the rate-limit window) and the record of the last trigger are
\* as they were before it.
StateUpdateSendsNothing ==
    [][ServerStateStep => /\ httpQueue' = httpQueue
                          /\ lastWebhookTime' = lastWebhookTime
                          /\ lastTrigger' = lastTrigger
                          /\ quiet' = quiet]_vars

\* a state update has switched button 1 on at a moment at which a press
\* would have been sent (network up, queue created and empty, outside the
\* rate-limit window), and nothing is queued
StateUpdateSendsNothingWitness ==
    /\ lastCall = "serverState"
    /\ buttons[1].state
    /\ wifi
    /\ queueOk
    /\ ~RateLimited(now, lastWebhookTime)
    /\ httpQueue = << >>
    /\ lastTrigger = NoTrigger

\* ------------------------------------------------------------------------
\* A configuration document applied beside loop()
\* ------------------------------------------------------------------------

ApplyDocs ==
    { ThemedDoc(ScheduleConfig(TRUE, DimPeriods, 5, 1, ""), 30, "light_mode",
                DayNightConfig(TRUE, "light_mode", "dark_mode", 6, 21)),
      ThemedDoc(ScheduleConfig(TRUE, DayNightPeriods, 80, 1, ""), 80, "dark_mode",
                DefaultDayNight) }

NextApply ==
    \/ Setup(InvalidDoc, TRUE, wall)
    \/ \E doc \in ApplyDocs : HandlerBegin(doc)
    \/ HandlerDisplay
    \/ HandlerClearButtons
    \/ HandlerButtons
    \/ HandlerApply(wall)
    \/ \E y \in BrightYears, t \in BrightTimes : SetTimeFromServer(y, t)
    \/ BrightnessUpdate
    \/ FingerDown
    \/ FingerUp
    \/ TouchpadRead

SpecApply == InitConfig /\ [][NextApply]_vars

\* C22: while the handler of POST /api/config applies a document, a
\* scheduler tick or a touch callback of loop() finds the configuration
\* either as it was before the request or as the document makes it, never
\* a mixture such as the new display settings with the old or a cleared
\* button list.
ReadersSeeWholeConfig ==
    [][(TickStep \/ TouchStep)
         => (handlerPc = "idle" \/ ConfigNow \in {handlerOld, ConfigOf(handlerDoc)})]_vars

\* ------------------------------------------------------------------------
\* loop(): the polling order
\* ------------------------------------------------------------------------

LoopSchedules ==
    { ScheduleConfig(TRUE, DayNightPeriods, 80, 1, ""),
      ScheduleConfig(FALSE, DayNightPeriods, 80, 1, "") }

LoopDayNights ==
    { DefaultDayNight, DayNightConfig(TRUE, "light_mode", "dark_mode", 7, 20) }

LoopTimes == {Time(7, 0), Time(23, 30)}

InitLoop ==
    /\ Init
    /\ wifi
    /\ wall = Time(7, 0)
    /\ schedule \in LoopSchedules
    /\ dayNight \in LoopDayNights
    /\ displayBrightness = 80

NextLoop ==
    \/ Setup(InvalidDoc, TRUE, wall)
    \/ Advance(U32(SYNC_RETRY_MS))
    \/ \E t \in LoopTimes : SetTimeFromServer(2025, t)
    \/ \E t \in LoopTimes : WallClockMoves(t)
    \/ \E reachable, elapsed \in BOOLEAN : LoopIteration(reachable, elapsed)

SpecLoop == InitLoop /\ [][NextLoop]_vars

\* one iteration of loop() has run
LoopStep == lastCall' = "loop"

\* C31: one iteration of loop() polls the clock and then both schedulers, so
\* that at its end the brightness scheduler holds the period of the clock's
\* reading (schedule enabled, clock synced, Scheduled) and the theme
\* scheduler has recorded the day/night status of the clock's reading
\* (day/night mode enabled, clock synced).
LoopPollsBothSchedulers ==
    [][LoopStep =>
         /\ (Scheduling /\ synced' /\ state' = "SCHEDULED")
              => currentPeriodIndex' = findActivePeriod(schedule.periods, getCurrentHour,
                                                        getCurrentMinute)
         /\ (dayNight.enabled /\ synced')
              => /\ initialized'
                 /\ wasNightTime' = ~isDayTime(getCurrentHour, dayNight)]_vars

\* the brightness scheduler's half of it
LoopPollsBrightnessScheduler ==
    [][LoopStep =>
         ((Scheduling /\ synced' /\ state' = "SCHEDULED")
              => currentPeriodIndex' = findActivePeriod(schedule.periods, getCurrentHour,
                                                        getCurrentMinute))]_vars

\* ------------------------------------------------------------------------
\* What the theme scheduler's update() reports
\* ------------------------------------------------------------------------

\* C33: update() of the theme scheduler returns true only when that call
\* switched the theme engine to the target theme and requested a rebuild;
\* when the target theme's name is unknown to the theme engine it returns
\* false, requests no rebuild and leaves the cached applied-theme name as
\* it was.
UpdateReportsSwitch ==
    [][ThemeTickStep =>
         /\ lastRet' => /\ lastWrote'
                        /\ needsRebuild'
                        /\ currentTheme' = TargetTheme(dayNight, getCurrentHour)
         /\ TargetTheme(dayNight, getCurrentHour) \notin KnownThemes
              => /\ ~lastRet'
                 /\ ~lastWrote'
                 /\ currentAppliedTheme' = currentAppliedTheme]_vars

\* ------------------------------------------------------------------------
\* The reporting URL and the server-change confirmation
\* ------------------------------------------------------------------------

OtherUrl == Url("http://", "10.0.1.9:3000")

RequestedUrls == {NoUrl, Url("ftp://", "10.0.1.9"), DefaultUrl, OtherUrl,
                  Url("https://", "panel.example")}

PanelSchedule == ScheduleConfig(FALSE, DayNightPeriods, 80, 1, "")

\* a configuration document with a server section
ServerDoc(url) ==
    [valid |-> TRUE, schedule |-> PanelSchedule, brightness |-> 30, theme |-> "dark_mode",
     dayNight |-> DefaultDayNight, buttons |-> DefaultButtons, reportingUrl |-> url]

PanelDocs == {ServerDoc(OtherUrl), ThemedDoc(PanelSchedule, 30, "dark_mode", DefaultDayNight),
              InvalidDoc}

InitPanel ==
    /\ Init
    /\ wifi
    /\ wall = Time(7, 0)
    /\ schedule = PanelSchedule
    /\ dayNight = DefaultDayNight
    /\ displayBrightness = 80

NextPanel ==
    \/ \E doc \in PanelDocs : Setup(doc, TRUE, wall)
    \/ \E url \in RequestedUrls : ServerChangeRequest(url)
    \/ ServerChangeAccept
    \/ ServerChangeReject
    \/ \E doc \in PanelDocs : ConfigPost(doc, wall)
    \/ \E elapsed \in BOOLEAN : UiUpdate(elapsed)

SpecPanel == InitPanel /\ [][NextPanel]_vars

\* C34: once setup() has run, the reporting URL in memory changes only in
\* the step in which the user accepts a pending server change on the panel,
\* whatever requests arrive from the network (POST /api/server, POST
\* /api/config); a Reject leaves it as it is.
UrlChangesOnlyOnAccept ==
    [][started => /\ reportingUrl' # reportingUrl => lastCall' = "accept"
                  /\ lastCall' = "reject" => reportingUrl' = reportingUrl]_vars

\* what POST /api/server alone can do to the reporting URL
ServerRequestKeepsUrl ==
    [][lastCall' = "serverChange" => reportingUrl' = reportingUrl]_vars

\* C38: whenever a server change is pending, its confirmation dialog is on
\* the screen.
PendingHasDialog == serverChangePending => overlay = "shown"

\* ------------------------------------------------------------------------
\* The rebuild fade and the other writers of the display brightness
\* ------------------------------------------------------------------------

FadeSchedule == ScheduleConfig(TRUE, DayNightPeriods, 80, 1, "")

FadeDayNight == DayNightConfig(TRUE, "light_mode", "dark_mode", 7, 20)

FadeBrightness == {30, 80}

FadeDocs == { ThemedDoc(FadeSchedule, b, "dark_mode", FadeDayNight) : b \in FadeBrightness }

FadeStateDocs == { StateDocWithBrightness(<< >>, 30), StateDoc(<<StateEntry(1, TRUE)>>) }

InitFade ==
    /\ Init
    /\ wifi
    /\ wall = Time(7, 0)
    /\ schedule = FadeSchedule
    /\ dayNight = FadeDayNight
    /\ displayBrightness = 80

NextFade ==
    \/ Setup(InvalidDoc, TRUE, wall)
    \/ SetTimeFromServer(2025, Time(7, 0))
    \/ \E doc \in FadeDocs : ConfigPost(doc, wall)
    \/ \E b \in FadeBrightness : SetBrightnessApi(b)
    \/ \E doc \in FadeStateDocs : ServerStateUpdate(doc)
    \/ \E elapsed \in BOOLEAN : LoopIteration(TRUE, elapsed)

SpecFade == InitFade /\ [][NextFade]_vars

\* the iteration of loop() in which the rebuild with its fade ends
FadeDoneStep == LoopStep /\ rebuildFadeInProgress /\ ~rebuildFadeInProgress'

\* C35: at the end of a rebuild that a configuration POST requested, fade
\* included, the display brightness is the brightness scheduler's target
\* (schedule enabled with a period, clock synced) and the theme engine's
\* theme is the theme scheduler's target for the hour (day/night mode
\* enabled, clock synced).
RebuildEndsAtTargets ==
    [][FadeDoneStep =>
         /\ (Scheduling /\ synced')
              => currentBrightness' = IF state' = "AWAKE" THEN schedule.touchBrightness
                                      ELSE currentScheduledBrightness'
         /\ (dayNight.enabled /\ synced')
              => currentTheme' = TargetTheme(dayNight, getCurrentHour)]_vars

\* the brightness half and the theme half of it
RebuildEndsAtTargetBrightness ==
    [][FadeDoneStep =>
         ((Scheduling /\ synced')
              => currentBrightness' = IF state' = "AWAKE" THEN schedule.touchBrightness
                                      ELSE currentScheduledBrightness')]_vars

RebuildEndsAtTargetTheme ==
    [][FadeDoneStep =>
         ((dayNight.enabled /\ synced')
              => currentTheme' = TargetTheme(dayNight, getCurrentHour))]_vars

\* C36: with the schedule enabled and a period configured, a valid value in
\* the scheduler's cache of the applied brightness is the brightness in
\* effect at the UIManager, whoever wrote last.
CacheIsActualBrightness ==
    (started /\ Scheduling /\ lastAppliedBrightness # INVALID_BRIGHTNESS)
        => lastAppliedBrightness = currentBrightness

\* the consequence the claim draws: after a scheduler tick of loop() with
\* the clock synced the display is at the scheduler's target
TickLeavesTarget ==
    [][(LoopStep /\ ~rebuildFadeInProgress /\ Scheduling /\ synced')
         => currentBrightness' = IF state' = "AWAKE" THEN schedule.touchBrightness
                                 ELSE currentScheduledBrightness']_vars

\* ------------------------------------------------------------------------
\* The worker task under fair scheduling
\* ------------------------------------------------------------------------

NextWorker ==
    \/ Setup(InvalidDoc, TRUE, wall)
    \/ \E d \in QueueDeltas : Advance(d)
    \/ WifiChange
    \/ ButtonPressed(1)
    \/ WorkerReceive
    \/ \E ok \in BOOLEAN : WorkerPost(ok)
    \/ WorkerDelayElapses
    \/ WorkerDelayDone

\* FreeRTOS runs the worker task whenever it is ready (loop() sleeps in
\* delay(5) in every iteration), http.POST() comes back, with a status or
\* with an error, after its timeout at the latest, and vTaskDelay() ends
FairWorker ==
    /\ WF_vars(WorkerReceive)
    /\ WF_vars(\E ok \in BOOLEAN : WorkerPost(ok))
    /\ WF_vars(WorkerDelayElapses)
    /\ WF_vars(WorkerDelayDone)

SpecWorker == InitQueue /\ [][NextWorker]_vars /\ FairWorker

TouchSchedules ==
    { ScheduleConfig(TRUE, DayNightPeriods, 80, 1, ""),
      ScheduleConfig(TRUE, DimPeriods, 80, 1, ""),
      ScheduleConfig(TRUE, DimPeriods, 5, 1, "") }

InitTouch ==
    /\ Init
    /\ wifi
    /\ wall \in {Time(7, 0), Time(23, 30)}
    /\ schedule \in TouchSchedules
    /\ dayNight = DefaultDayNight
    /\ displayBrightness = 80

\* loop() with the finger down: lv_timer_handler() reads the touch panel,
\* brightnessScheduler.update() runs, time passes in delay(); once the steps
\* of the tick counter are used up the iterations go on at the same reading
LoopReadsTouch ==
    /\ isTouched
    /\ lastCall # "touch"
    /\ lastCall = "update" => advances >= MaxAdvances
    /\ TouchpadRead
LoopTicks == lastCall = "touch" /\ BrightnessUpdate
LoopSleeps == lastCall = "update" /\ Advance(U32(250))

\* the server sets the clock
ClockSetOnce == ~synced /\ SetTimeFromServer(2025, wall)

NextTouch ==
    \/ Setup(InvalidDoc, TRUE, wall)
    \/ ClockSetOnce
    \/ FingerDown
    \/ LoopReadsTouch
    \/ LoopTicks
    \/ LoopSleeps

\* setup() returns, the user puts the finger down and keeps it there, and
\* loop() runs its iterations one after the other
FairTouch ==
    /\ WF_vars(Setup(InvalidDoc, TRUE, wall))
    /\ WF_vars(FingerDown)
    /\ WF_vars(LoopReadsTouch)
    /\ WF_vars(LoopTicks)
    /\ WF_vars(LoopSleeps)

SpecTouch == InitTouch /\ [][NextTouch]_vars /\ FairTouch

\* the grace window of a wake at this moment ends while the tick counter
\* still runs
TimeLeftForGrace == advances + 2 <= MaxAdvances

\* C37: with the schedule enabled, whatever touchBrightness and periods are
\* and whether or not the clock is synced, a user who keeps touching after
\* a wake gets a touch delivered as a press: after every wake a read with
\* data->state = PRESSED follows.
TouchEventuallyPressed ==
    [](((woke /\ TimeLeftForGrace) => <>(indevState = "PRESSED")))

====
